---- MODULE Spec2Model ----
(***************************************************************************)
(* State-machine model of data_loader.py: the bulk loader that reads the   *)
(* sheets of a workbook and upserts them, stage by stage, into the ss_t_*  *)
(* tables.  The database is a record of tables, a table is a set of rows,  *)
(* a row is a record.  Every stage is one action: its upsert loop over the *)
(* sheet, its read-back and the commit of its transaction.                 *)
(*                                                                         *)
(* Cell and column values: text cells are strings, with NaN the pandas     *)
(* missing-value marker and None the Python None / SQL NULL of a text      *)
(* column.  Identifiers and hints are integers, with NULL the None / SQL   *)
(* NULL of an integer column and NaNHint a missing hint cell.              *)
(***************************************************************************)
EXTENDS Integers, Sequences, FiniteSets, TLC

\* Bounds of the model (not program constants).
MaxLoads == 2
MaxFailures == 1

NaN == "NaN"
None == "None"
NULL == 0
NaNHint == -1

\* Columns whose cells are integers in this model.
IntCols == {"school_id", "teacher_id_hint", "subject_id_hint", "student_id_hint"}

\* pd.isna on a text cell and on an integer cell.
isna(val) == val \in {NaN, None}
isnan(val) == val \in {NaNHint, NULL}

Max(S) == CHOOSE m \in S : \A n \in S : n <= m

\* dict.get(k): the value, or None (NULL) when the key is absent.
Get(m, k) == IF k \in DOMAIN m THEN m[k] ELSE NULL

\* {row.key: row.id for row in q.fetchall()}: a later row overwrites an
\* earlier one with the same key; rows are fetched in primary-key order.
DictOf(rows, keycol, idcol) ==
    [k \in {r[keycol] : r \in rows} |->
        Max({r[idcol] : r \in {x \in rows : x[keycol] = k}})]

\* m[k] = v on a dict.
Put(m, k, v) == [x \in DOMAIN m \cup {k} |-> IF x = k THEN v ELSE m[x]]

\* ensure_keys without the missing-value test: present cells are copied.
ensure_keys_keeps_nan(row_dict, required_keys) ==
    [k \in DOMAIN row_dict \cup required_keys |->
        IF k \in DOMAIN row_dict THEN row_dict[k]
        ELSE (IF k \in IntCols THEN NULL ELSE None)]
\* ensure_keys: a copy of the row in which every required key is present,
\* None when the row lacks it or holds a missing value.
ensure_keys(row_dict, required_keys) ==
    [k \in DOMAIN row_dict \cup required_keys |->
        IF k \in required_keys
        THEN IF k \in DOMAIN row_dict
             THEN IF k \in IntCols
                  THEN (IF isnan(row_dict[k]) THEN NULL ELSE row_dict[k])
                  ELSE (IF isna(row_dict[k]) THEN None ELSE row_dict[k])
             ELSE (IF k \in IntCols THEN NULL ELSE None)
        ELSE row_dict[k]]

\* The AUTO_INCREMENT value the next inserted row of a table gets.
AutoInc(T, pk) == 1 + Max({r[pk] : r \in T} \cup {0})

\* Plain INSERT: always a new row under a fresh identifier.
Insert(T, pk, d) == T \cup {[d EXCEPT ![pk] = AutoInc(T, pk)]}

\* INSERT ... ON DUPLICATE KEY UPDATE: hit are the stored rows that collide
\* with the new row d on the table's unique key and updated is what the
\* update clause makes of them; without a collision d is inserted.
Upsert(T, pk, d, hit, updated) ==
    IF hit # {} THEN (T \ hit) \cup updated ELSE Insert(T, pk, d)


(***************************************************************************)
(* The tables.  Columns: the key columns, the reference columns, every     *)
(* column an update clause names, and for the identity kinds one column    *)
(* the update clause leaves alone (address, tuition_fee, mobile_number),   *)
(* standing for all columns that are inserted but never updated.           *)
(***************************************************************************)
Tables == {"ss_t_schools", "ss_t_grades", "ss_t_sections", "ss_t_subjects",
           "ss_t_teachers", "ss_t_students", "ss_t_teacher_subject",
           "ss_t_teacher_grade_section", "ss_t_timeslots", "ss_t_timetable",
           "ss_t_attendance", "ss_t_homework_details", "ss_t_class_diary",
           "ss_t_fees_summary", "ss_t_installments",
           "ss_t_teacher_salary_structure", "ss_t_teacher_salary_payslip"}

EmptyDb == [t \in Tables |-> {}]

\* ---------------------------------------------------------------- schools
\* Unique key of ss_t_schools: school_name.  A NULL never collides.
school_dup(t, d) == d.school_name # None /\ t.school_name = d.school_name
school_update(t, d) == [t EXCEPT !.school_name = d.school_name]
school_row(T, r) ==
    LET d == ensure_keys(r, {"school_name", "address"})
    IN LET new == [school_id |-> NULL, school_name |-> d.school_name,
               address |-> d.address]
           hit == {t \in T : school_dup(t, new)}
       IN Upsert(T, "school_id", new, hit,
                 {school_update(t, new) : t \in hit})
upsert_school(d, df) ==
    LET T == (LET f[i \in 0..Len(df)] ==
                     IF i = 0 THEN d.ss_t_schools
                     ELSE school_row(f[i - 1], df[i])
              IN f[Len(df)])
    IN [db |-> [d EXCEPT !.ss_t_schools = T],
        m |-> DictOf(T, "school_name", "school_id")]

\* ----------------------------------------------------------------- grades
\* Unique key of ss_t_grades: (school_id, grade_name).
grade_dup(t, d) ==
    /\ d.school_id # NULL /\ d.grade_name # None
    /\ t.school_id = d.school_id /\ t.grade_name = d.grade_name
\* grade_update with tuition_fee added to the update clause.
grade_update_with_fee(t, d) ==
    [t EXCEPT !.description = d.description, !.tuition_fee = d.tuition_fee]
grade_update(t, d) == [t EXCEPT !.description = d.description]
grade_row(T, r, school_id) ==
    LET d == ensure_keys(r, {"grade_name", "description", "tuition_fee"})
    IN LET new == [grade_id |-> NULL, school_id |-> school_id,
               grade_name |-> d.grade_name, description |-> d.description,
               tuition_fee |-> d.tuition_fee]
           hit == {t \in T : grade_dup(t, new)}
       IN Upsert(T, "grade_id", new, hit,
                 {grade_update(t, new) : t \in hit})
\* insert_grades with a read-back that is not scoped to the school.
insert_grades_unscoped(d, df, school_id) ==
    LET T == (LET f[i \in 0..Len(df)] ==
                     IF i = 0 THEN d.ss_t_grades
                     ELSE grade_row(f[i - 1], df[i], school_id)
              IN f[Len(df)])
    IN [db |-> [d EXCEPT !.ss_t_grades = T],
        mapping |-> DictOf(T, "grade_name", "grade_id")]
\* WHERE school_id = :sid selects nothing when :sid is NULL.
insert_grades(d, df, school_id) ==
    LET T == (LET f[i \in 0..Len(df)] ==
                     IF i = 0 THEN d.ss_t_grades
                     ELSE grade_row(f[i - 1], df[i], school_id)
              IN f[Len(df)])
    IN [db |-> [d EXCEPT !.ss_t_grades = T],
        mapping |-> DictOf({g \in T : school_id # NULL /\ g.school_id = school_id},
                           "grade_name", "grade_id")]

\* --------------------------------------------------------------- sections
\* Unique key of ss_t_sections: (grade_id, section_name).
section_dup(t, d) ==
    /\ d.grade_id # NULL /\ d.section_name # None
    /\ t.grade_id = d.grade_id /\ t.section_name = d.section_name
\* section_update with an update clause that leaves the capacity alone.
section_update_keeps_capacity(t, d) == [t EXCEPT !.section_name = d.section_name]
section_update(t, d) == [t EXCEPT !.capacity = d.capacity]
section_row(T, r, grade_map) ==
    IF isna(r.grade_name) \/ isna(r.section_name) THEN T
    ELSE IF r.grade_name \notin DOMAIN grade_map THEN T
    ELSE LET d == ensure_keys(r, {"grade_name", "section_name", "capacity"})
         IN LET new == [section_id |-> NULL, grade_id |-> grade_map[r.grade_name],
                    section_name |-> d.section_name, capacity |-> d.capacity]
                hit == {t \in T : section_dup(t, new)}
            IN Upsert(T, "section_id", new, hit,
                      {section_update(t, new) : t \in hit})
\* insert_sections with one section dict shared by all grades.
insert_sections_flat(d, df, grade_map) ==
    LET T == (LET f[i \in 0..Len(df)] ==
                     IF i = 0 THEN d.ss_t_sections
                     ELSE section_row(f[i - 1], df[i], grade_map)
              IN f[Len(df)])
    IN [db |-> [d EXCEPT !.ss_t_sections = T],
        out |-> [g \in DOMAIN grade_map |->
                    DictOf(T, "section_name", "section_id")]]
insert_sections(d, df, grade_map) ==
    LET T == (LET f[i \in 0..Len(df)] ==
                     IF i = 0 THEN d.ss_t_sections
                     ELSE section_row(f[i - 1], df[i], grade_map)
              IN f[Len(df)])
    IN [db |-> [d EXCEPT !.ss_t_sections = T],
        out |-> [g \in DOMAIN grade_map |->
                    DictOf({s \in T : s.grade_id = grade_map[g]},
                           "section_name", "section_id")]]

\* section_map.get(grade_name, {})
SectionsOf(section_map, grade_name) ==
    IF grade_name \in DOMAIN section_map THEN section_map[grade_name] ELSE << >>

\* The guard shared by the stages that cite a grade/section pair.
KnownSection(r, grade_map, section_map) ==
    /\ r.grade_name \in DOMAIN grade_map
    /\ r.section_name \in DOMAIN SectionsOf(section_map, r.grade_name)

\* --------------------------------------------------------------- subjects
\* Unique key of ss_t_subjects: (school_id, subject_name).
subject_dup(t, d) ==
    /\ d.school_id # NULL /\ d.subject_name # None
    /\ t.school_id = d.school_id /\ t.subject_name = d.subject_name
subject_update(t, d) == [t EXCEPT !.subject_name = d.subject_name]
subject_row(T, r, school_id) ==
    LET d == ensure_keys(r, {"subject_name"})
    IN LET new == [subject_id |-> NULL, school_id |-> school_id,
               subject_name |-> d.subject_name]
           hit == {t \in T : subject_dup(t, new)}
       IN Upsert(T, "subject_id", new, hit,
                 {subject_update(t, new) : t \in hit})
insert_subjects(d, df, school_id) ==
    LET T == (LET f[i \in 0..Len(df)] ==
                     IF i = 0 THEN d.ss_t_subjects
                     ELSE subject_row(f[i - 1], df[i], school_id)
              IN f[Len(df)])
    IN [db |-> [d EXCEPT !.ss_t_subjects = T],
        mapping |-> DictOf({s \in T : school_id # NULL /\ s.school_id = school_id},
                           "subject_name", "subject_id")]

\* --------------------------------------------------------------- teachers
\* Unique key of ss_t_teachers: (school_id, email).
teacher_dup(t, d) ==
    /\ d.school_id # NULL /\ d.email # None
    /\ t.school_id = d.school_id /\ t.email = d.email
teacher_update(t, d) ==
    [t EXCEPT !.first_name = d.first_name, !.last_name = d.last_name,
              !.is_active = 1]
teacher_row(T, r, school_id) ==
    LET d == ensure_keys(r, {"first_name", "last_name", "mobile_number", "email"})
    IN LET new == [teacher_id |-> NULL, school_id |-> school_id,
               first_name |-> d.first_name, last_name |-> d.last_name,
               mobile_number |-> d.mobile_number, email |-> d.email,
               is_active |-> 1]
           hit == {t \in T : teacher_dup(t, new)}
       IN Upsert(T, "teacher_id", new, hit,
                 {teacher_update(t, new) : t \in hit})
insert_teachers(d, df, school_id) ==
    LET T == (LET f[i \in 0..Len(df)] ==
                     IF i = 0 THEN d.ss_t_teachers
                     ELSE teacher_row(f[i - 1], df[i], school_id)
              IN f[Len(df)])
    IN [db |-> [d EXCEPT !.ss_t_teachers = T],
        mapping |-> DictOf({s \in T : school_id # NULL /\ s.school_id = school_id},
                           "email", "teacher_id")]

\* ------------------------------------------------- hint maps built by main
teacher_hint_row(m, r, teacher_map) ==
    IF ~isnan(r.teacher_id_hint) /\ r.email \in DOMAIN teacher_map
    THEN Put(m, r.teacher_id_hint, teacher_map[r.email])
    ELSE m
build_teacher_hint_map(df, teacher_map) ==
    (LET f[i \in 0..Len(df)] ==
            IF i = 0 THEN << >>
            ELSE teacher_hint_row(f[i - 1], df[i], teacher_map)
     IN f[Len(df)])
\* subject_hint_row joining the hint with the newest subject instead of the
\* subject the row names.
subject_hint_row_newest(m, r, subject_map) ==
    IF ~isnan(r.subject_id_hint) /\ r.subject_name \in DOMAIN subject_map
    THEN Put(m, r.subject_id_hint,
             Max({subject_map[k] : k \in DOMAIN subject_map}))
    ELSE m
subject_hint_row(m, r, subject_map) ==
    IF ~isnan(r.subject_id_hint) /\ r.subject_name \in DOMAIN subject_map
    THEN Put(m, r.subject_id_hint, subject_map[r.subject_name])
    ELSE m
build_subject_hint_map(df, subject_map) ==
    (LET f[i \in 0..Len(df)] ==
            IF i = 0 THEN << >>
            ELSE subject_hint_row(f[i - 1], df[i], subject_map)
     IN f[Len(df)])

\* --------------------------------------------------------------- students
\* Unique key of ss_t_students: email.
student_dup(t, d) == d.email # None /\ t.email = d.email
student_update(t, d) ==
    [t EXCEPT !.first_name = d.first_name, !.last_name = d.last_name,
              !.guardian_name = d.guardian_name]
student_row(T, r, grade_map, section_map) ==
    IF isna(r.grade_name) \/ isna(r.section_name) THEN T
    ELSE IF ~KnownSection(r, grade_map, section_map) THEN T
    ELSE LET d == ensure_keys(r, {"school_id", "first_name", "last_name",
                                  "mobile_number", "email", "guardian_name"})
         IN LET new == [student_id |-> NULL, school_id |-> r.school_id,
                    grade_id |-> grade_map[r.grade_name],
                    section_id |-> section_map[r.grade_name][r.section_name],
                    first_name |-> d.first_name, last_name |-> d.last_name,
                    mobile_number |-> d.mobile_number, email |-> d.email,
                    guardian_name |-> d.guardian_name]
                hit == {t \in T : student_dup(t, new)}
            IN Upsert(T, "student_id", new, hit,
                      {student_update(t, new) : t \in hit})
student_hint_row(m, r, email_to_id) ==
    IF ~isnan(r.student_id_hint) /\ ~isna(r.email)
    THEN LET sid == Get(email_to_id, r.email)
         IN IF sid # NULL THEN Put(m, r.student_id_hint, sid) ELSE m
    ELSE m
insert_students(d, df, grade_map, section_map) ==
    LET T == (LET f[i \in 0..Len(df)] ==
                     IF i = 0 THEN d.ss_t_students
                     ELSE student_row(f[i - 1], df[i], grade_map, section_map)
              IN f[Len(df)])
        email_to_id == DictOf({s \in T : s.email # None}, "email", "student_id")
    IN [db |-> [d EXCEPT !.ss_t_students = T],
        student_hint_map |->
            (LET f[i \in 0..Len(df)] ==
                    IF i = 0 THEN << >>
                    ELSE student_hint_row(f[i - 1], df[i], email_to_id)
             IN f[Len(df)])]

\* ------------------------------------------------------- teacher_subjects
\* Unique key of ss_t_teacher_subject: (teacher_id, subject_id).
teacher_subject_dup(t, d) ==
    t.teacher_id = d.teacher_id /\ t.subject_id = d.subject_id
teacher_subject_update(t, d) == [t EXCEPT !.teacher_id = d.teacher_id]
\* teacher_subject_row resolving the teacher hint through the subject map.
teacher_subject_row_crossed(T, r, teacher_hint_map, subject_hint_map) ==
    IF isnan(r.teacher_id_hint) \/ isnan(r.subject_id_hint) THEN T
    ELSE LET teacher_id == Get(subject_hint_map, r.teacher_id_hint)
             subject_id == Get(subject_hint_map, r.subject_id_hint)
         IN IF teacher_id = NULL \/ subject_id = NULL THEN T
            ELSE LET new == [id |-> NULL, teacher_id |-> teacher_id,
                         subject_id |-> subject_id]
                     hit == {t \in T : teacher_subject_dup(t, new)}
                 IN Upsert(T, "id", new, hit,
                           {teacher_subject_update(t, new) : t \in hit})
teacher_subject_row(T, r, teacher_hint_map, subject_hint_map) ==
    IF isnan(r.teacher_id_hint) \/ isnan(r.subject_id_hint) THEN T
    ELSE LET teacher_id == Get(teacher_hint_map, r.teacher_id_hint)
             subject_id == Get(subject_hint_map, r.subject_id_hint)
         IN IF teacher_id = NULL \/ subject_id = NULL THEN T
            ELSE LET new == [id |-> NULL, teacher_id |-> teacher_id,
                         subject_id |-> subject_id]
                     hit == {t \in T : teacher_subject_dup(t, new)}
                 IN Upsert(T, "id", new, hit,
                           {teacher_subject_update(t, new) : t \in hit})
insert_teacher_subjects(d, df, teacher_hint_map, subject_hint_map) ==
    [d EXCEPT !.ss_t_teacher_subject =
        (LET f[i \in 0..Len(df)] ==
                IF i = 0 THEN d.ss_t_teacher_subject
                ELSE teacher_subject_row(f[i - 1], df[i], teacher_hint_map, subject_hint_map)
         IN f[Len(df)])]

\* -------------------------------------------------- teacher_grade_section
\* Unique key of ss_t_teacher_grade_section: (teacher_id, grade_id, section_id).
teacher_grade_section_dup(t, d) ==
    /\ t.teacher_id = d.teacher_id
    /\ t.grade_id = d.grade_id /\ t.section_id = d.section_id
teacher_grade_section_update(t, d) == [t EXCEPT !.teacher_id = d.teacher_id]
teacher_grade_section_row(T, r, teacher_hint_map, grade_map, section_map) ==
    IF isnan(r.teacher_id_hint) \/ isna(r.grade_name) \/ isna(r.section_name)
    THEN T
    ELSE IF ~KnownSection(r, grade_map, section_map) THEN T
    ELSE LET teacher_id == Get(teacher_hint_map, r.teacher_id_hint)
             grade_id == grade_map[r.grade_name]
             section_id == section_map[r.grade_name][r.section_name]
         IN IF teacher_id = NULL THEN T
            ELSE LET new == [id |-> NULL, teacher_id |-> teacher_id,
                         grade_id |-> grade_id, section_id |-> section_id]
                     hit == {t \in T : teacher_grade_section_dup(t, new)}
                 IN Upsert(T, "id", new, hit,
                           {teacher_grade_section_update(t, new) : t \in hit})
insert_teacher_grade_section(d, df, teacher_hint_map, grade_map, section_map) ==
    [d EXCEPT !.ss_t_teacher_grade_section =
        (LET f[i \in 0..Len(df)] ==
                IF i = 0 THEN d.ss_t_teacher_grade_section
                ELSE teacher_grade_section_row(f[i - 1], df[i], teacher_hint_map, grade_map, section_map)
         IN f[Len(df)])]

\* -------------------------------------------------------------- timeslots
\* Unique key of ss_t_timeslots: (day_of_week, period_number).
timeslot_dup(t, d) ==
    t.day_of_week = d.day_of_week /\ t.period_number = d.period_number
timeslot_update(t, d) ==
    [t EXCEPT !.start_time = d.start_time, !.end_time = d.end_time]
timeslot_row(T, r) ==
    IF isna(r.day_of_week) \/ isna(r.period_number) THEN T
    ELSE LET d == ensure_keys(r, {"day_of_week", "period_number",
                                  "start_time", "end_time"})
         IN LET new == [timeslot_id |-> NULL, day_of_week |-> d.day_of_week,
                    period_number |-> d.period_number,
                    start_time |-> d.start_time, end_time |-> d.end_time]
                hit == {t \in T : timeslot_dup(t, new)}
            IN Upsert(T, "timeslot_id", new, hit,
                      {timeslot_update(t, new) : t \in hit})
insert_timeslots(d, df) ==
    [d EXCEPT !.ss_t_timeslots =
        (LET f[i \in 0..Len(df)] ==
                IF i = 0 THEN d.ss_t_timeslots
                ELSE timeslot_row(f[i - 1], df[i])
         IN f[Len(df)])]

\* -------------------------------------------------------------- timetable
\* Unique key of ss_t_timetable: (grade_id, section_id, timeslot_id).
timetable_dup(t, d) ==
    /\ t.grade_id = d.grade_id /\ t.section_id = d.section_id
    /\ t.timeslot_id = d.timeslot_id
timetable_update(t, d) ==
    [t EXCEPT !.subject_id = d.subject_id, !.teacher_id = d.teacher_id,
              !.room_number = d.room_number]
\* A timeslot query without its WHERE clause.
timeslot_lookup_unfiltered(timeslots, dow, pn) == timeslots
\* SELECT timeslot_id ... WHERE day_of_week=:dow AND period_number=:pn, fetchone
timeslot_lookup(timeslots, dow, pn) ==
    {t \in timeslots : t.day_of_week = dow /\ t.period_number = pn}
timetable_row(T, r, timeslots, grade_map, section_map, subject_map, teacher_map) ==
    IF isna(r.grade_name) \/ isna(r.section_name)
       \/ isna(r.day_of_week) \/ isna(r.period_number) THEN T
    ELSE IF ~KnownSection(r, grade_map, section_map) THEN T
    ELSE LET grade_id == grade_map[r.grade_name]
             section_id == section_map[r.grade_name][r.section_name]
             ts_row == timeslot_lookup(timeslots, r.day_of_week, r.period_number)
         IN IF ts_row = {} THEN T
            ELSE LET timeslot_id == Max({t.timeslot_id : t \in ts_row})
                     teacher_id == Get(teacher_map, r.teacher_email)
                     subject_id == Get(subject_map, r.subject_name)
                 IN IF teacher_id = NULL \/ subject_id = NULL THEN T
                    ELSE LET new == [id |-> NULL, grade_id |-> grade_id,
                                 section_id |-> section_id,
                                 timeslot_id |-> timeslot_id,
                                 subject_id |-> subject_id,
                                 teacher_id |-> teacher_id,
                                 room_number |-> r.room_number, is_active |-> 1]
                             hit == {t \in T : timetable_dup(t, new)}
                         IN Upsert(T, "id", new, hit,
                                   {timetable_update(t, new) : t \in hit})
insert_timetable(d, df, grade_map, section_map, subject_map, teacher_map) ==
    [d EXCEPT !.ss_t_timetable =
        (LET f[i \in 0..Len(df)] ==
                IF i = 0 THEN d.ss_t_timetable
                ELSE timetable_row(f[i - 1], df[i], d.ss_t_timeslots, grade_map, section_map, subject_map, teacher_map)
         IN f[Len(df)])]

\* ------------------------------------------------------------- attendance
\* Unique key of ss_t_attendance: (student_id, attendance_date).
attendance_dup(t, d) ==
    t.student_id = d.student_id /\ t.attendance_date = d.attendance_date
\* attendance_update with an update clause that does not carry the status.
attendance_update_keeps_status(t, d) == [t EXCEPT !.student_id = d.student_id]
attendance_update(t, d) == [t EXCEPT !.status = d.status]
\* attendance_row writing the hint cell itself as the student reference.
attendance_row_persists_hint(T, r, student_hint_map) ==
    IF isnan(r.student_id_hint) \/ isna(r.date) \/ isna(r.status) THEN T
    ELSE LET new == [id |-> NULL, student_id |-> r.student_id_hint,
                     attendance_date |-> r.date, status |-> r.status]
             hit == {t \in T : attendance_dup(t, new)}
         IN Upsert(T, "id", new, hit,
                   {attendance_update(t, new) : t \in hit})
attendance_row(T, r, student_hint_map) ==
    IF isnan(r.student_id_hint) \/ isna(r.date) \/ isna(r.status) THEN T
    ELSE LET student_id == Get(student_hint_map, r.student_id_hint)
         IN IF student_id = NULL THEN T
            ELSE LET new == [id |-> NULL, student_id |-> student_id,
                         attendance_date |-> r.date, status |-> r.status]
                     hit == {t \in T : attendance_dup(t, new)}
                 IN Upsert(T, "id", new, hit,
                           {attendance_update(t, new) : t \in hit})
\* insert_attendance leaving the loop at the first row whose hint has no
\* entry (break instead of continue).
insert_attendance_stops_at_unknown(d, df, student_hint_map) ==
    LET unknown == {i \in 1..Len(df) :
                       /\ ~isnan(df[i].student_id_hint)
                       /\ df[i].student_id_hint \notin DOMAIN student_hint_map}
        n == IF unknown = {} THEN Len(df)
             ELSE (CHOOSE i \in unknown : \A j \in unknown : i <= j) - 1
    IN [d EXCEPT !.ss_t_attendance =
           (LET f[i \in 0..n] ==
                   IF i = 0 THEN d.ss_t_attendance
                   ELSE attendance_row(f[i - 1], df[i], student_hint_map)
            IN f[n])]
insert_attendance(d, df, student_hint_map) ==
    [d EXCEPT !.ss_t_attendance =
        (LET f[i \in 0..Len(df)] ==
                IF i = 0 THEN d.ss_t_attendance
                ELSE attendance_row(f[i - 1], df[i], student_hint_map)
         IN f[Len(df)])]

\* ------------------------------------------------- homework, class diary
\* Plain INSERT statements: no unique key, no ON DUPLICATE KEY clause.
homework_row(T, r, grade_map, section_map, subject_map, teacher_map) ==
    IF isna(r.teacher_email) \/ isna(r.grade_name) \/ isna(r.section_name)
       \/ isna(r.subject_name) \/ isna(r.title) \/ isna(r.assigned_date) THEN T
    ELSE IF ~KnownSection(r, grade_map, section_map) THEN T
    ELSE LET teacher_id == Get(teacher_map, r.teacher_email)
             grade_id == grade_map[r.grade_name]
             section_id == section_map[r.grade_name][r.section_name]
             subject_id == Get(subject_map, r.subject_name)
         IN IF teacher_id = NULL \/ subject_id = NULL THEN T
            ELSE Insert(T, "id",
                        [id |-> NULL, teacher_id |-> teacher_id,
                         grade_id |-> grade_id, section_id |-> section_id,
                         subject_id |-> subject_id, title |-> r.title,
                         assigned_date |-> r.assigned_date, status |-> r.status])
insert_homework_details(d, df, grade_map, section_map, subject_map, teacher_map) ==
    [d EXCEPT !.ss_t_homework_details =
        (LET f[i \in 0..Len(df)] ==
                IF i = 0 THEN d.ss_t_homework_details
                ELSE homework_row(f[i - 1], df[i], grade_map, section_map, subject_map, teacher_map)
         IN f[Len(df)])]

class_diary_row(T, r, grade_map, section_map, subject_map, teacher_map) ==
    IF isna(r.teacher_email) \/ isna(r.grade_name) \/ isna(r.section_name)
       \/ isna(r.subject_name) \/ isna(r.date) \/ isna(r.title) THEN T
    ELSE IF ~KnownSection(r, grade_map, section_map) THEN T
    ELSE LET teacher_id == Get(teacher_map, r.teacher_email)
             grade_id == grade_map[r.grade_name]
             section_id == section_map[r.grade_name][r.section_name]
             subject_id == Get(subject_map, r.subject_name)
         IN IF teacher_id = NULL \/ subject_id = NULL THEN T
            ELSE Insert(T, "id",
                        [id |-> NULL, teacher_id |-> teacher_id,
                         grade_id |-> grade_id, section_id |-> section_id,
                         subject_id |-> subject_id, entry_date |-> r.date,
                         title |-> r.title, description |-> r.description])
insert_class_diary(d, df, grade_map, section_map, subject_map, teacher_map) ==
    [d EXCEPT !.ss_t_class_diary =
        (LET f[i \in 0..Len(df)] ==
                IF i = 0 THEN d.ss_t_class_diary
                ELSE class_diary_row(f[i - 1], df[i], grade_map, section_map, subject_map, teacher_map)
         IN f[Len(df)])]

\* ----------------------------------------------------------- fees summary
\* Unique key of ss_t_fees_summary: student_id.
fees_summary_dup(t, d) == t.student_id = d.student_id
\* fees_summary_update with amount_paid left out of the update clause.
fees_summary_update_keeps_paid(t, d) ==
    [t EXCEPT !.total_fee = d.total_fee, !.concession = d.concession,
              !.net_payable = d.net_payable]
fees_summary_update(t, d) ==
    [t EXCEPT !.total_fee = d.total_fee, !.concession = d.concession,
              !.net_payable = d.net_payable, !.amount_paid = d.amount_paid]
fees_summary_row(T, r, student_hint_map) ==
    IF isnan(r.student_id_hint) THEN T
    ELSE LET student_id == Get(student_hint_map, r.student_id_hint)
         IN IF student_id = NULL THEN T
            ELSE LET d == ensure_keys(r, {"total_fee", "concession",
                                          "net_payable", "amount_paid"})
                 IN LET new == [fee_id |-> NULL, student_id |-> student_id,
                            total_fee |-> d.total_fee, concession |-> d.concession,
                            net_payable |-> d.net_payable,
                            amount_paid |-> d.amount_paid]
                        hit == {t \in T : fees_summary_dup(t, new)}
                    IN Upsert(T, "fee_id", new, hit,
                              {fees_summary_update(t, new) : t \in hit})
insert_fees_summary(d, df, student_hint_map) ==
    LET T == (LET f[i \in 0..Len(df)] ==
                     IF i = 0 THEN d.ss_t_fees_summary
                     ELSE fees_summary_row(f[i - 1], df[i], student_hint_map)
              IN f[Len(df)])
    IN [db |-> [d EXCEPT !.ss_t_fees_summary = T],
        fee_map |-> DictOf(T, "student_id", "fee_id")]

\* ----------------------------------------------------------- installments
\* Unique key of ss_t_installments: (fee_id, installment_no).
installment_dup(t, d) ==
    /\ d.installment_no # None
    /\ t.fee_id = d.fee_id /\ t.installment_no = d.installment_no
installment_update(t, d) ==
    [t EXCEPT !.amount = d.amount, !.due_date = d.due_date,
              !.paid_date = d.paid_date, !.paid_status = d.paid_status]
\* installment_row with the fee summary looked up under the hint itself.
installment_row_by_hint(T, r, student_hint_map, fee_map) ==
    IF isnan(r.student_id_hint) \/ isna(r.installment_no) THEN T
    ELSE LET student_id == Get(student_hint_map, r.student_id_hint)
         IN IF student_id = NULL THEN T
            ELSE LET fee_id == Get(fee_map, r.student_id_hint)
                 IN IF fee_id = NULL THEN T
                    ELSE LET d == ensure_keys(r, {"installment_no", "amount",
                                 "due_date", "paid_date", "paid_status"})
                         IN LET new == [id |-> NULL, fee_id |-> fee_id,
                                    installment_no |-> d.installment_no,
                                    amount |-> d.amount, due_date |-> d.due_date,
                                    paid_date |-> d.paid_date,
                                    paid_status |-> d.paid_status]
                                hit == {t \in T : installment_dup(t, new)}
                            IN Upsert(T, "id", new, hit,
                                      {installment_update(t, new) : t \in hit})
installment_row(T, r, student_hint_map, fee_map) ==
    IF isnan(r.student_id_hint) \/ isna(r.installment_no) THEN T
    ELSE LET student_id == Get(student_hint_map, r.student_id_hint)
         IN IF student_id = NULL THEN T
            ELSE LET fee_id == Get(fee_map, student_id)
                 IN IF fee_id = NULL THEN T
                    ELSE LET d == ensure_keys(r, {"installment_no", "amount",
                                 "due_date", "paid_date", "paid_status"})
                         IN LET new == [id |-> NULL, fee_id |-> fee_id,
                                    installment_no |-> d.installment_no,
                                    amount |-> d.amount, due_date |-> d.due_date,
                                    paid_date |-> d.paid_date,
                                    paid_status |-> d.paid_status]
                                hit == {t \in T : installment_dup(t, new)}
                            IN Upsert(T, "id", new, hit,
                                      {installment_update(t, new) : t \in hit})
insert_installments(d, df, student_hint_map, fee_map) ==
    [d EXCEPT !.ss_t_installments =
        (LET f[i \in 0..Len(df)] ==
                IF i = 0 THEN d.ss_t_installments
                ELSE installment_row(f[i - 1], df[i], student_hint_map, fee_map)
         IN f[Len(df)])]

\* ------------------------------------------------------- salary structure
\* Unique key of ss_t_teacher_salary_structure: teacher_id.
salary_structure_dup(t, d) == t.teacher_id = d.teacher_id
salary_structure_update(t, d) ==
    [t EXCEPT !.basic_pay = d.basic_pay, !.allowances = d.allowances,
              !.deductions = d.deductions]
salary_structure_row(T, r, teacher_map) ==
    IF isna(r.teacher_email) THEN T
    ELSE LET teacher_id == Get(teacher_map, r.teacher_email)
         IN IF teacher_id = NULL THEN T
            ELSE LET d == ensure_keys(r, {"basic_pay", "allowances", "deductions"})
                 IN LET new == [id |-> NULL, teacher_id |-> teacher_id,
                            basic_pay |-> d.basic_pay,
                            allowances |-> d.allowances,
                            deductions |-> d.deductions]
                        hit == {t \in T : salary_structure_dup(t, new)}
                    IN Upsert(T, "id", new, hit,
                              {salary_structure_update(t, new) : t \in hit})
insert_teacher_salary_structure(d, df, teacher_map) ==
    [d EXCEPT !.ss_t_teacher_salary_structure =
        (LET f[i \in 0..Len(df)] ==
                IF i = 0 THEN d.ss_t_teacher_salary_structure
                ELSE salary_structure_row(f[i - 1], df[i], teacher_map)
         IN f[Len(df)])]

\* --------------------------------------------------------- salary payslip
\* Unique key of ss_t_teacher_salary_payslip: (teacher_id, year, month).
salary_payslip_dup(t, d) ==
    t.teacher_id = d.teacher_id /\ t.year = d.year /\ t.month = d.month
salary_payslip_update(t, d) ==
    [t EXCEPT !.basic_pay = d.basic_pay, !.allowances = d.allowances,
              !.deductions = d.deductions, !.net_pay = d.net_pay]
salary_payslip_row(T, r, teacher_map) ==
    IF isna(r.teacher_email) \/ isna(r.year) \/ isna(r.month) THEN T
    ELSE LET teacher_id == Get(teacher_map, r.teacher_email)
         IN IF teacher_id = NULL THEN T
            ELSE LET d == ensure_keys(r, {"year", "month", "basic_pay",
                                          "allowances", "deductions", "net_pay"})
                 IN LET new == [id |-> NULL, teacher_id |-> teacher_id,
                            year |-> d.year, month |-> d.month,
                            basic_pay |-> d.basic_pay,
                            allowances |-> d.allowances,
                            deductions |-> d.deductions, net_pay |-> d.net_pay]
                        hit == {t \in T : salary_payslip_dup(t, new)}
                    IN Upsert(T, "id", new, hit,
                              {salary_payslip_update(t, new) : t \in hit})
insert_teacher_salary_payslip(d, df, teacher_map) ==
    [d EXCEPT !.ss_t_teacher_salary_payslip =
        (LET f[i \in 0..Len(df)] ==
                IF i = 0 THEN d.ss_t_teacher_salary_payslip
                ELSE salary_payslip_row(f[i - 1], df[i], teacher_map)
         IN f[Len(df)])]

(***************************************************************************)
(* Workbooks.  A workbook is a record of sheets, a sheet a sequence of     *)
(* rows, a row a record of the columns the loader reads.                   *)
(***************************************************************************)
SchoolR(n, a) == [school_name |-> n, address |-> a]
GradeR(n, d, f) == [grade_name |-> n, description |-> d, tuition_fee |-> f]
SectionR(g, sn, c) == [grade_name |-> g, section_name |-> sn, capacity |-> c]
SubjectR(n, h) == [subject_name |-> n, subject_id_hint |-> h]
TeacherR(e, fn, ln, mob, h) ==
    [email |-> e, first_name |-> fn, last_name |-> ln, mobile_number |-> mob,
     teacher_id_hint |-> h]
StudentR(sch, g, sn, e, fn, ln, gu, mob, h) ==
    [school_id |-> sch, grade_name |-> g, section_name |-> sn, email |-> e,
     first_name |-> fn, last_name |-> ln, guardian_name |-> gu,
     mobile_number |-> mob, student_id_hint |-> h]
TeacherSubjectR(th, sh) == [teacher_id_hint |-> th, subject_id_hint |-> sh]
TeacherGradeSectionR(th, g, sn) ==
    [teacher_id_hint |-> th, grade_name |-> g, section_name |-> sn]
TimeslotR(dow, pn, st, et) ==
    [day_of_week |-> dow, period_number |-> pn, start_time |-> st, end_time |-> et]
TimetableR(g, sn, dow, pn, subj, e, room) ==
    [grade_name |-> g, section_name |-> sn, day_of_week |-> dow,
     period_number |-> pn, subject_name |-> subj, teacher_email |-> e,
     room_number |-> room]
AttendanceR(h, dt, st) == [student_id_hint |-> h, date |-> dt, status |-> st]
HomeworkR(e, g, sn, subj, ti, ad, st) ==
    [teacher_email |-> e, grade_name |-> g, section_name |-> sn,
     subject_name |-> subj, title |-> ti, assigned_date |-> ad, status |-> st]
ClassDiaryR(e, g, sn, subj, dt, ti, de) ==
    [teacher_email |-> e, grade_name |-> g, section_name |-> sn,
     subject_name |-> subj, date |-> dt, title |-> ti, description |-> de]
FeesSummaryR(h, tf, co, np, ap) ==
    [student_id_hint |-> h, total_fee |-> tf, concession |-> co,
     net_payable |-> np, amount_paid |-> ap]
InstallmentR(h, no, am, dd, pd, ps) ==
    [student_id_hint |-> h, installment_no |-> no, amount |-> am,
     due_date |-> dd, paid_date |-> pd, paid_status |-> ps]
SalaryStructureR(e, bp, al, de) ==
    [teacher_email |-> e, basic_pay |-> bp, allowances |-> al, deductions |-> de]
SalaryPayslipR(e, y, mo, bp, al, de, np) ==
    [teacher_email |-> e, year |-> y, month |-> mo, basic_pay |-> bp,
     allowances |-> al, deductions |-> de, net_pay |-> np]

Sheets == {"schools", "grades", "sections", "subjects", "teachers", "students",
           "teacher_subjects", "teacher_grade_section", "timeslots",
           "timetable", "attendance", "homework", "class_diary",
           "fees_summary", "installments", "salary_structure",
           "salary_payslips"}

\* One school, one grade G1 with section A (the sections sheet also names a
\* section of a grade G2 the grades sheet lacks), two subjects, one teacher,
\* one student in G1/A and one student row citing a section Z that does not
\* exist.  The hint values 1 and 2 are used by all three hinted kinds.
Core ==
    [schools |-> <<SchoolR("S1", "a1")>>,
     grades |-> <<GradeR("G1", "d1", "f1")>>,
     sections |-> <<SectionR("G1", "A", "c1"), SectionR("G2", "B", "c1")>>,
     subjects |-> <<SubjectR("Math", 1), SubjectR("Art", 2)>>,
     teachers |-> <<TeacherR("t1@x", "Ann", "Lee", "m1", 2)>>,
     students |-> <<StudentR(NULL, "G1", "A", "s1@x", "Bob", "Ray", "gu1", "m1", 1),
                    StudentR(NULL, "G1", "Z", "s2@x", "Cy", "Ray", "gu1", "m1", 2)>>,
     teacher_subjects |-> << >>, teacher_grade_section |-> << >>,
     timeslots |-> << >>, timetable |-> << >>, attendance |-> << >>,
     homework |-> << >>, class_diary |-> << >>, fees_summary |-> << >>,
     installments |-> << >>, salary_structure |-> << >>,
     salary_payslips |-> << >>]

\* Identity kinds re-loaded with changed columns and with duplicate keys.
ShelfIdentity ==
    {Core,
     [Core EXCEPT
        !.schools = <<SchoolR("S1", "a2")>>,
        !.grades = <<GradeR("G1", "d2", "f2"), GradeR("G2", "d1", "f1")>>,
        !.sections = <<SectionR("G1", "A", "c2")>>,
        !.teachers = <<TeacherR("t1@x", "Anna", "Li", "m2", 2)>>,
        !.students = <<StudentR(NULL, "G2", "B", "s1@x", "Rob", "Roy", "gu2", "m2", 1)>>],
     [Core EXCEPT
        !.grades = <<GradeR("G1", "d1", "f1"), GradeR("G1", "d3", "f3")>>,
        !.sections = <<SectionR("G2", "B", "c1"), SectionR("G1", "A", "c1"),
                       SectionR("G1", "A", "c3")>>,
        !.students = <<StudentR(NULL, "G1", "A", "s1@x", "Bob", "Ray", "gu1", "m1", 1),
                       StudentR(NULL, "G1", "A", "s1@x", "Rob", "Ray", "gu3", "m3", 1)>>]}

\* Teacher/subject links, teacher/section links, timeslots and timetable.
Linked ==
    [Core EXCEPT
        !.teacher_subjects = <<TeacherSubjectR(2, 1), TeacherSubjectR(1, 2)>>,
        !.teacher_grade_section = <<TeacherGradeSectionR(2, "G1", "A"),
                                    TeacherGradeSectionR(2, "G1", "Z"),
                                    TeacherGradeSectionR(2, "G9", "A")>>,
        !.timeslots = <<TimeslotR("Mon", "p1", "09:00", "10:00")>>,
        !.timetable = <<TimetableR("G1", "A", "Mon", "p1", "Math", "t1@x", "r1"),
                        TimetableR("G1", "A", "Tue", "p1", "Math", "t1@x", "r1")>>,
        !.attendance = <<AttendanceR(1, "d1", "P")>>]
ShelfLinks ==
    {Linked,
     [Linked EXCEPT
        !.teachers = <<TeacherR("t1@x", "Ann", "Lee", "m1", 2),
                       TeacherR("t2@x", "Ben", "Orr", "m1", 1)>>,
        !.timeslots = <<TimeslotR("Mon", "p1", "09:30", "10:30"),
                        TimeslotR("Tue", "p1", "09:00", "10:00")>>,
        !.timetable = <<TimetableR("G1", "A", "Mon", "p1", "Art", "t2@x", "r2")>>],
     [Linked EXCEPT !.timeslots = << >>]}

\* Attendance; in the second workbook the status differs, in the third the
\* skipped student row carries the e-mail of the inserted student.
Attended ==
    [Core EXCEPT
        !.attendance = <<AttendanceR(1, "d1", "P"), AttendanceR(2, "d1", "P"),
                         AttendanceR(1, NaN, "P")>>]
ShelfAttendance ==
    {Attended,
     [Attended EXCEPT
        !.attendance = <<AttendanceR(1, "d1", "A"), AttendanceR(1, "d2", "P")>>],
     [Attended EXCEPT
        !.students = <<StudentR(NULL, "G1", "A", "s1@x", "Bob", "Ray", "gu1", "m1", 1),
                       StudentR(NULL, "G1", "Z", "s1@x", "Bob", "Ray", "gu1", "m1", 2)>>]}

\* Homework and class diary.
Journal ==
    [Core EXCEPT
        !.homework = <<HomeworkR("t1@x", "G1", "A", "Math", "hw1", "d1", "open"),
                       HomeworkR("t1@x", "G1", "Z", "Math", "hw2", "d1", "open")>>,
        !.class_diary = <<ClassDiaryR("t1@x", "G1", "A", "Art", "d1", "cd1", "x")>>]
ShelfJournal ==
    {Journal,
     [Journal EXCEPT !.class_diary = << >>],
     [Journal EXCEPT !.homework = << >>]}

\* Fee summaries and installments.
Billed ==
    [Core EXCEPT
        !.fees_summary = <<FeesSummaryR(1, "100", "0", "100", "50"),
                           FeesSummaryR(2, "100", "0", "100", "0")>>,
        !.installments = <<InstallmentR(1, "n1", "50", "d1", "d1", "paid"),
                           InstallmentR(2, "n1", "50", "d1", NaN, "due")>>]
ShelfFees ==
    {Billed,
     [Billed EXCEPT
        !.fees_summary = <<FeesSummaryR(1, "120", "10", "110", "80")>>,
        !.installments = <<InstallmentR(1, "n1", "60", "d2", "d3", "late"),
                           InstallmentR(1, "n2", "50", "d4", NaN, "due")>>],
     [Billed EXCEPT
        !.fees_summary = <<FeesSummaryR(1, "100", "0", "100", "50"),
                           FeesSummaryR(1, "100", NaN, "100", "70")>>,
        !.installments = << >>]}

\* Salary structures and payslips.
Salaried ==
    [Core EXCEPT
        !.salary_structure = <<SalaryStructureR("t1@x", "900", "50", "20"),
                               SalaryStructureR("t9@x", "900", "50", "20")>>,
        !.salary_payslips = <<SalaryPayslipR("t1@x", "2024", "01", "900", "50", "20", "930")>>]
ShelfPayroll ==
    {Salaried,
     [Salaried EXCEPT
        !.salary_structure = <<SalaryStructureR("t1@x", "950", "60", "30")>>,
        !.salary_payslips = <<SalaryPayslipR("t1@x", "2024", "01", "950", "60", "30", "980"),
                              SalaryPayslipR("t1@x", "2024", "02", "950", "60", "30", "980")>>],
     [Salaried EXCEPT
        !.salary_payslips = <<SalaryPayslipR("t1@x", "2024", "01", "900", "50", "20", "930"),
                              SalaryPayslipR("t1@x", "2024", "01", "900", NaN, "25", "925")>>]}

\* Several schools, student rows that carry a school_id cell, and a schools
\* sheet without rows.
ShelfSchools ==
    {[Core EXCEPT
        !.students = <<StudentR(1, "G1", "A", "s1@x", "Bob", "Ray", "gu1", "m1", 1)>>],
     [Core EXCEPT
        !.schools = <<SchoolR("S2", "a1"), SchoolR("S1", "a1")>>],
     [Core EXCEPT
        !.students = <<StudentR(9, "G1", "A", "s3@x", "Dee", "Ray", "gu1", "m1", 2)>>],
     [Core EXCEPT
        !.grades = <<GradeR("G1", "d1", "f1"), GradeR("G2", "d1", "f1")>>,
        !.sections = <<SectionR("G1", "A", "c1")>>],
     [Core EXCEPT !.schools = << >>]}

\* Rows with missing cells: a grade, subject, teacher and student row without
\* its natural key, a section row without its name or its grade, link rows
\* without a hint, a payslip row without its year, and a school without name.
\* The grades sheet has no tuition_fee column.
Gaps ==
    [Core EXCEPT
        !.grades = <<[grade_name |-> "G1", description |-> "d1"],
                     [grade_name |-> NaN, description |-> "d1"]>>,
        !.sections = <<SectionR("G1", NaN, "c1"), SectionR("G1", "A", "c1"),
                       SectionR(NaN, "A", "c1")>>,
        !.subjects = <<SubjectR(NaN, 2), SubjectR("Math", 1)>>,
        !.teachers = <<TeacherR(NaN, "Ben", "Orr", "m1", 1),
                       TeacherR("t1@x", "Ann", "Lee", "m1", 2)>>,
        !.students = <<StudentR(NULL, "G1", "A", NaN, "Cy", "Ray", "gu1", "m1", 2),
                       StudentR(NULL, NaN, "A", "s4@x", "Di", "Ray", "gu1", "m1", NaNHint),
                       StudentR(NULL, "G1", "A", "s1@x", "Bob", "Ray", "gu1", "m1", 1)>>,
        !.teacher_subjects = <<TeacherSubjectR(NaNHint, 1), TeacherSubjectR(2, 1)>>,
        !.salary_payslips = <<SalaryPayslipR("t1@x", NaN, "01", "900", "50", "20", "930"),
                              SalaryPayslipR("t1@x", "2024", "01", "900", "50", "20", "930")>>]
ShelfMissing ==
    {Gaps,
     [Core EXCEPT !.schools = <<SchoolR(NaN, "a1")>>]}

\* Hint values that are no identifier of any row (the tables stay below
\* seven rows).  In the first workbook every link sheet begins with a row
\* whose hint has no entry; the second workbook numbers the same rows
\* differently.
Hinted ==
    [Core EXCEPT
        !.subjects = <<SubjectR("Math", 8), SubjectR("Art", 7)>>,
        !.teachers = <<TeacherR("t1@x", "Ann", "Lee", "m1", 7)>>,
        !.students = <<StudentR(NULL, "G1", "A", "s1@x", "Bob", "Ray", "gu1", "m1", 7),
                       StudentR(NULL, "G1", "Z", "s2@x", "Cy", "Ray", "gu1", "m1", 8)>>,
        !.teacher_subjects = <<TeacherSubjectR(8, 7), TeacherSubjectR(7, 8)>>,
        !.teacher_grade_section = <<TeacherGradeSectionR(8, "G1", "A"),
                                    TeacherGradeSectionR(7, "G1", "A")>>,
        !.attendance = <<AttendanceR(8, "d1", "P"), AttendanceR(7, "d1", "P")>>,
        !.fees_summary = <<FeesSummaryR(8, "100", "0", "100", "0"),
                           FeesSummaryR(7, "100", "0", "100", "50")>>,
        !.installments = <<InstallmentR(8, "n1", "50", "d1", NaN, "due"),
                           InstallmentR(7, "n1", "50", "d1", "d1", "paid")>>]
ShelfHints ==
    {Hinted,
     [Hinted EXCEPT
        !.subjects = <<SubjectR("Math", 7), SubjectR("Art", 8)>>,
        !.teachers = <<TeacherR("t1@x", "Ann", "Lee", "m1", 8)>>,
        !.students = <<StudentR(NULL, "G1", "A", "s1@x", "Bob", "Ray", "gu1", "m1", 8)>>,
        !.teacher_subjects = <<TeacherSubjectR(8, 8)>>,
        !.teacher_grade_section = <<TeacherGradeSectionR(8, "G1", "A")>>,
        !.attendance = <<AttendanceR(8, "d2", "P")>>,
        !.fees_summary = <<FeesSummaryR(8, "100", "0", "100", "60")>>,
        !.installments = <<InstallmentR(8, "n2", "50", "d1", "d1", "paid")>>]}

\* Two grades that both have a section A; only G2 has a section B in the
\* first workbook, and rows of every kind that carries a grade/section pair
\* cite G1/B.  The second workbook gives G1 its section B and moves the
\* student to G1/A.
Classed ==
    [Core EXCEPT
        !.grades = <<GradeR("G1", "d1", "f1"), GradeR("G2", "d1", "f1")>>,
        !.sections = <<SectionR("G1", "A", "c1"), SectionR("G2", "A", "c1"),
                       SectionR("G2", "B", "c1")>>,
        !.students = <<StudentR(NULL, "G2", "A", "s1@x", "Bob", "Ray", "gu1", "m1", 1),
                       StudentR(NULL, "G1", "B", "s2@x", "Cy", "Ray", "gu1", "m1", 2)>>,
        !.teacher_grade_section = <<TeacherGradeSectionR(2, "G2", "A"),
                                    TeacherGradeSectionR(2, "G1", "B")>>,
        !.timeslots = <<TimeslotR("Mon", "p1", "09:00", "10:00")>>,
        !.timetable = <<TimetableR("G2", "A", "Mon", "p1", "Math", "t1@x", "r1"),
                        TimetableR("G1", "B", "Mon", "p1", "Math", "t1@x", "r1")>>,
        !.homework = <<HomeworkR("t1@x", "G2", "A", "Math", "hw1", "d1", "open"),
                       HomeworkR("t1@x", "G1", "B", "Math", "hw2", "d1", "open")>>,
        !.class_diary = <<ClassDiaryR("t1@x", "G1", "A", "Art", "d1", "cd1", "x"),
                          ClassDiaryR("t1@x", "G1", "B", "Art", "d1", "cd2", "x")>>]
ShelfClasses ==
    {Classed,
     [Classed EXCEPT
        !.grades = <<GradeR("G1", "d1", "f1")>>,
        !.sections = <<SectionR("G1", "B", "c1")>>,
        !.students = <<StudentR(NULL, "G1", "A", "s1@x", "Bob", "Ray", "gu1", "m1", 1)>>]}

\* Two students, hinted 2 and 1 in sheet order.  In the first workbook only
\* the first student has a fee summary while installment rows cite both
\* students and an unknown hint; the second workbook has no fee summary
\* rows; in the third only the second student has one.
Owed ==
    [Core EXCEPT
        !.students = <<StudentR(NULL, "G1", "A", "s1@x", "Bob", "Ray", "gu1", "m1", 2),
                       StudentR(NULL, "G1", "A", "s2@x", "Cy", "Ray", "gu1", "m1", 1)>>,
        !.fees_summary = <<FeesSummaryR(2, "100", "0", "100", "50")>>,
        !.installments = <<InstallmentR(1, "n1", "50", "d1", NaN, "due"),
                           InstallmentR(2, "n1", "50", "d1", "d1", "paid"),
                           InstallmentR(3, "n1", "50", "d1", NaN, "due")>>]
ShelfDues ==
    {Owed,
     [Owed EXCEPT
        !.fees_summary = << >>,
        !.installments = <<InstallmentR(1, "n1", "40", "d1", NaN, "due"),
                           InstallmentR(2, "n1", "60", "d2", "d3", "late"),
                           InstallmentR(2, "n2", "50", "d4", NaN, "due")>>],
     [Owed EXCEPT
        !.fees_summary = <<FeesSummaryR(1, "100", "0", "100", "0")>>,
        !.installments = <<InstallmentR(2, "n1", "50", "d1", "d1", "paid"),
                           InstallmentR(1, "n1", "50", "d1", NaN, "due")>>]}

Shelves ==
    [identity |-> ShelfIdentity, links |-> ShelfLinks,
     attendance |-> ShelfAttendance, journal |-> ShelfJournal,
     fees |-> ShelfFees, payroll |-> ShelfPayroll, schools |-> ShelfSchools,
     missing |-> ShelfMissing, hints |-> ShelfHints, classes |-> ShelfClasses,
     dues |-> ShelfDues]

(***************************************************************************)
(* The state machine of main.                                              *)
(***************************************************************************)
VARIABLES
    db,        \* the committed content of the target database
    shelf,     \* which family of workbooks the operator loads from
    wb,        \* the workbook read by the running (or last) invocation
    pc,        \* where main stands
    local,     \* the local variables of main: the published mappings
    loads,     \* invocations started so far
    failures   \* stages that raised so far

vars == <<db, shelf, wb, pc, local, loads, failures>>

\* The stages of main in program order; "complete" is the final print.
StageOrder ==
    <<"schools", "school_id", "grades", "sections", "subjects", "teachers",
      "hint_maps", "students", "teacher_subjects", "teacher_grade_section",
      "timeslots", "timetable", "attendance", "homework", "class_diary",
      "fees_summary", "installments", "salary_structure", "salary_payslips",
      "complete">>

StageIndex(st) == CHOOSE i \in 1..Len(StageOrder) : StageOrder[i] = st

\* After with insert_students called before insert_sections.
After_students_first(st) ==
    LET swapped == [StageOrder EXCEPT ![StageIndex("sections")] = "students",
                                      ![StageIndex("students")] = "sections"]
    IN swapped[(CHOOSE i \in 1..Len(swapped) : swapped[i] = st) + 1]
\* The statement main executes after stage st.
After(st) == StageOrder[StageIndex(st) + 1]

\* The stages that open a transaction, with the sheet they iterate over.
SheetOf ==
    [schools |-> "schools", grades |-> "grades", sections |-> "sections",
     subjects |-> "subjects", teachers |-> "teachers", students |-> "students",
     teacher_subjects |-> "teacher_subjects",
     teacher_grade_section |-> "teacher_grade_section",
     timeslots |-> "timeslots", timetable |-> "timetable",
     attendance |-> "attendance", homework |-> "homework",
     class_diary |-> "class_diary", fees_summary |-> "fees_summary",
     installments |-> "installments", salary_structure |-> "salary_structure",
     salary_payslips |-> "salary_payslips"]
TxStages == DOMAIN SheetOf

\* The table each transactional stage writes.
TableOf ==
    [schools |-> "ss_t_schools", grades |-> "ss_t_grades",
     sections |-> "ss_t_sections", subjects |-> "ss_t_subjects",
     teachers |-> "ss_t_teachers", students |-> "ss_t_students",
     teacher_subjects |-> "ss_t_teacher_subject",
     teacher_grade_section |-> "ss_t_teacher_grade_section",
     timeslots |-> "ss_t_timeslots", timetable |-> "ss_t_timetable",
     attendance |-> "ss_t_attendance", homework |-> "ss_t_homework_details",
     class_diary |-> "ss_t_class_diary", fees_summary |-> "ss_t_fees_summary",
     installments |-> "ss_t_installments",
     salary_structure |-> "ss_t_teacher_salary_structure",
     salary_payslips |-> "ss_t_teacher_salary_payslip"]

\* The locals of main before any of them is assigned.
Unset ==
    [school_map |-> << >>, school_id |-> NULL, grade_map |-> << >>,
     section_map |-> << >>, subject_map |-> << >>, teacher_map |-> << >>,
     teacher_hint_map |-> << >>, subject_hint_map |-> << >>,
     student_hint_map |-> << >>, fee_map |-> << >>]

\* The statements of main, one operator each: run to its end on database d
\* with the sheets w and main's locals l, a statement yields the database
\* and the locals it leaves; ok is FALSE when the statement raises.
run_schools(d, w, l) ==
    LET res == upsert_school(d, w.schools)
    IN [db |-> res.db, local |-> [l EXCEPT !.school_map = res.m], ok |-> TRUE]
\* run_school_id reading the name from the last row of the schools sheet.
run_school_id_last_row(d, w, l) ==
    IF Len(w.schools) = 0
    THEN [db |-> d, local |-> l, ok |-> FALSE]
    ELSE [db |-> d, ok |-> TRUE,
          local |-> [l EXCEPT !.school_id =
                        Get(l.school_map, w.schools[Len(w.schools)].school_name)]]
run_school_id(d, w, l) ==
    IF Len(w.schools) = 0
    THEN [db |-> d, local |-> l, ok |-> FALSE]
    ELSE [db |-> d, ok |-> TRUE,
          local |-> [l EXCEPT !.school_id =
                        Get(l.school_map, w.schools[1].school_name)]]
run_grades(d, w, l) ==
    LET res == insert_grades(d, w.grades, l.school_id)
    IN [db |-> res.db, local |-> [l EXCEPT !.grade_map = res.mapping], ok |-> TRUE]
run_sections(d, w, l) ==
    LET res == insert_sections(d, w.sections, l.grade_map)
    IN [db |-> res.db, local |-> [l EXCEPT !.section_map = res.out], ok |-> TRUE]
run_subjects(d, w, l) ==
    LET res == insert_subjects(d, w.subjects, l.school_id)
    IN [db |-> res.db, local |-> [l EXCEPT !.subject_map = res.mapping], ok |-> TRUE]
run_teachers(d, w, l) ==
    LET res == insert_teachers(d, w.teachers, l.school_id)
    IN [db |-> res.db, local |-> [l EXCEPT !.teacher_map = res.mapping], ok |-> TRUE]
run_hint_maps(d, w, l) ==
    [db |-> d, ok |-> TRUE,
     local |-> [l EXCEPT
        !.teacher_hint_map = build_teacher_hint_map(w.teachers, l.teacher_map),
        !.subject_hint_map = build_subject_hint_map(w.subjects, l.subject_map)]]
run_students(d, w, l) ==
    LET res == insert_students(d, w.students, l.grade_map, l.section_map)
    IN [db |-> res.db, ok |-> TRUE,
        local |-> [l EXCEPT !.student_hint_map = res.student_hint_map]]
run_teacher_subjects(d, w, l) ==
    [db |-> insert_teacher_subjects(d, w.teacher_subjects,
                l.teacher_hint_map, l.subject_hint_map),
     local |-> l, ok |-> TRUE]
\* run_teacher_grade_section with section_map.setdefault(grade_name, {}) in
\* place of section_map.get(grade_name, {}).
run_teacher_grade_section_setdefault(d, w, l) ==
    [db |-> insert_teacher_grade_section(d, w.teacher_grade_section,
                l.teacher_hint_map, l.grade_map, l.section_map),
     local |-> [l EXCEPT !.section_map =
                   [g \in DOMAIN l.section_map
                          \cup {r.grade_name : r \in
                                   {x \in {w.teacher_grade_section[i] :
                                              i \in 1..Len(w.teacher_grade_section)} :
                                       ~isna(x.grade_name)}} |->
                       IF g \in DOMAIN l.section_map THEN l.section_map[g]
                       ELSE << >>]],
     ok |-> TRUE]
run_teacher_grade_section(d, w, l) ==
    [db |-> insert_teacher_grade_section(d, w.teacher_grade_section,
                l.teacher_hint_map, l.grade_map, l.section_map),
     local |-> l, ok |-> TRUE]
run_timeslots(d, w, l) ==
    [db |-> insert_timeslots(d, w.timeslots), local |-> l, ok |-> TRUE]
run_timetable(d, w, l) ==
    [db |-> insert_timetable(d, w.timetable, l.grade_map, l.section_map,
                l.subject_map, l.teacher_map),
     local |-> l, ok |-> TRUE]
run_attendance(d, w, l) ==
    [db |-> insert_attendance(d, w.attendance, l.student_hint_map),
     local |-> l, ok |-> TRUE]
run_homework(d, w, l) ==
    [db |-> insert_homework_details(d, w.homework, l.grade_map,
                l.section_map, l.subject_map, l.teacher_map),
     local |-> l, ok |-> TRUE]
run_class_diary(d, w, l) ==
    [db |-> insert_class_diary(d, w.class_diary, l.grade_map,
                l.section_map, l.subject_map, l.teacher_map),
     local |-> l, ok |-> TRUE]
run_fees_summary(d, w, l) ==
    LET res == insert_fees_summary(d, w.fees_summary, l.student_hint_map)
    IN [db |-> res.db, local |-> [l EXCEPT !.fee_map = res.fee_map], ok |-> TRUE]
run_installments(d, w, l) ==
    [db |-> insert_installments(d, w.installments, l.student_hint_map,
                l.fee_map),
     local |-> l, ok |-> TRUE]
run_salary_structure(d, w, l) ==
    [db |-> insert_teacher_salary_structure(d, w.salary_structure,
                l.teacher_map),
     local |-> l, ok |-> TRUE]
run_salary_payslips(d, w, l) ==
    [db |-> insert_teacher_salary_payslip(d, w.salary_payslips,
                l.teacher_map),
     local |-> l, ok |-> TRUE]
run_complete(d, w, l) ==
    [db |-> d, local |-> l, ok |-> TRUE]

\* The statement at position st of main.
RunStage(st, d, w, l) ==
    CASE st = "schools" -> run_schools(d, w, l)
      [] st = "school_id" -> run_school_id(d, w, l)
      [] st = "grades" -> run_grades(d, w, l)
      [] st = "sections" -> run_sections(d, w, l)
      [] st = "subjects" -> run_subjects(d, w, l)
      [] st = "teachers" -> run_teachers(d, w, l)
      [] st = "hint_maps" -> run_hint_maps(d, w, l)
      [] st = "students" -> run_students(d, w, l)
      [] st = "teacher_subjects" -> run_teacher_subjects(d, w, l)
      [] st = "teacher_grade_section" -> run_teacher_grade_section(d, w, l)
      [] st = "timeslots" -> run_timeslots(d, w, l)
      [] st = "timetable" -> run_timetable(d, w, l)
      [] st = "attendance" -> run_attendance(d, w, l)
      [] st = "homework" -> run_homework(d, w, l)
      [] st = "class_diary" -> run_class_diary(d, w, l)
      [] st = "fees_summary" -> run_fees_summary(d, w, l)
      [] st = "installments" -> run_installments(d, w, l)
      [] st = "salary_structure" -> run_salary_structure(d, w, l)
      [] st = "salary_payslips" -> run_salary_payslips(d, w, l)
      [] st = "complete" -> run_complete(d, w, l)

\* main from its first statement to its last on workbook w, started on
\* database d with no stage raising other than by the data.
RECURSIVE mainFrom(_, _, _)
mainFrom(i, w, s) ==
    IF i > Len(StageOrder) \/ ~s.ok THEN s
    ELSE mainFrom(i + 1, w, RunStage(StageOrder[i], s.db, w, s.local))
main(d, w) == mainFrom(1, w, [db |-> d, local |-> Unset, ok |-> TRUE])

\* engine.begin(): the block's writes are committed when it ends normally
\* and rolled back when it raises.
Commit(before, written) == written
\* Rollback of a connection in autocommit mode.
Rollback_autocommit(before, written) == written
Rollback(before, written) == before

Init ==
    /\ db = EmptyDb
    /\ shelf \in DOMAIN Shelves
    /\ wb = Core
    /\ pc = "idle"
    /\ local = Unset
    /\ loads = 0
    /\ failures = 0

\* main is invoked: the arguments are parsed and all sheets are read.
ReadWorkbook ==
    /\ pc \in {"idle", "done", "aborted"}
    /\ loads < MaxLoads
    /\ wb' \in Shelves[shelf]
    /\ pc' = "schools"
    /\ local' = Unset
    /\ loads' = loads + 1
    /\ UNCHANGED <<db, shelf, failures>>

\* Step with the exception of the statement swallowed: main goes on.
Step_ignores_failure(st, res) ==
    \E r \in {res} :
        /\ db' = Commit(db, r.db)
        /\ local' = r.local
        /\ pc' = After(st)
        /\ UNCHANGED <<shelf, wb, loads, failures>>
\* The statement at position st of main runs to its end with outcome res.
Step(st, res) ==
    \E r \in {res} :
        /\ db' = Commit(db, r.db)
        /\ local' = r.local
        /\ pc' = IF r.ok THEN After(st) ELSE "aborted"
        /\ UNCHANGED <<shelf, wb, loads, failures>>

UpsertSchool ==
    /\ pc = "schools"
    /\ Step("schools", run_schools(db, wb, local))
SelectSchool ==
    /\ pc = "school_id"
    /\ Step("school_id", run_school_id(db, wb, local))
InsertGrades ==
    /\ pc = "grades"
    /\ Step("grades", run_grades(db, wb, local))
InsertSections ==
    /\ pc = "sections"
    /\ Step("sections", run_sections(db, wb, local))
InsertSubjects ==
    /\ pc = "subjects"
    /\ Step("subjects", run_subjects(db, wb, local))
InsertTeachers ==
    /\ pc = "teachers"
    /\ Step("teachers", run_teachers(db, wb, local))
BuildHintMaps ==
    /\ pc = "hint_maps"
    /\ Step("hint_maps", run_hint_maps(db, wb, local))
InsertStudents ==
    /\ pc = "students"
    /\ Step("students", run_students(db, wb, local))
InsertTeacherSubjects ==
    /\ pc = "teacher_subjects"
    /\ Step("teacher_subjects", run_teacher_subjects(db, wb, local))
InsertTeacherGradeSection ==
    /\ pc = "teacher_grade_section"
    /\ Step("teacher_grade_section", run_teacher_grade_section(db, wb, local))
InsertTimeslots ==
    /\ pc = "timeslots"
    /\ Step("timeslots", run_timeslots(db, wb, local))
InsertTimetable ==
    /\ pc = "timetable"
    /\ Step("timetable", run_timetable(db, wb, local))
InsertAttendance ==
    /\ pc = "attendance"
    /\ Step("attendance", run_attendance(db, wb, local))
InsertHomeworkDetails ==
    /\ pc = "homework"
    /\ Step("homework", run_homework(db, wb, local))
InsertClassDiary ==
    /\ pc = "class_diary"
    /\ Step("class_diary", run_class_diary(db, wb, local))
InsertFeesSummary ==
    /\ pc = "fees_summary"
    /\ Step("fees_summary", run_fees_summary(db, wb, local))
InsertInstallments ==
    /\ pc = "installments"
    /\ Step("installments", run_installments(db, wb, local))
InsertTeacherSalaryStructure ==
    /\ pc = "salary_structure"
    /\ Step("salary_structure", run_salary_structure(db, wb, local))
InsertTeacherSalaryPayslip ==
    /\ pc = "salary_payslips"
    /\ Step("salary_payslips", run_salary_payslips(db, wb, local))

\* print("Load complete.") and exit.
LoadComplete ==
    /\ pc = "complete"
    /\ pc' = "done"
    /\ UNCHANGED <<db, shelf, wb, local, loads, failures>>

\* A statement inside a stage's transaction raises (connectivity, schema or
\* constraint error) after k rows of the sheet were written, or, for
\* k = Len(sheet), during the read-back: the transaction is rolled back and
\* the exception ends main.
StageFail ==
    /\ pc \in TxStages
    /\ failures < MaxFailures
    /\ \E k \in 0..Len(wb[SheetOf[pc]]) :
         LET part == [wb EXCEPT ![SheetOf[pc]] = SubSeq(@, 1, k)]
         IN db' = Rollback(db, RunStage(pc, db, part, local).db)
    /\ pc' = "aborted"
    /\ failures' = failures + 1
    /\ UNCHANGED <<shelf, wb, local, loads>>

Next ==
    \/ ReadWorkbook
    \/ UpsertSchool
    \/ SelectSchool
    \/ InsertGrades
    \/ InsertSections
    \/ InsertSubjects
    \/ InsertTeachers
    \/ BuildHintMaps
    \/ InsertStudents
    \/ InsertTeacherSubjects
    \/ InsertTeacherGradeSection
    \/ InsertTimeslots
    \/ InsertTimetable
    \/ InsertAttendance
    \/ InsertHomeworkDetails
    \/ InsertClassDiary
    \/ InsertFeesSummary
    \/ InsertInstallments
    \/ InsertTeacherSalaryStructure
    \/ InsertTeacherSalaryPayslip
    \/ LoadComplete
    \/ StageFail

Spec == Init /\ [][Next]_vars

\* A started main keeps executing: the interpreter runs the next statement
\* or the statement raises.  A new invocation is up to the user.
RunOn ==
    \/ UpsertSchool \/ SelectSchool \/ InsertGrades \/ InsertSections
    \/ InsertSubjects \/ InsertTeachers \/ BuildHintMaps \/ InsertStudents
    \/ InsertTeacherSubjects \/ InsertTeacherGradeSection \/ InsertTimeslots
    \/ InsertTimetable \/ InsertAttendance \/ InsertHomeworkDetails
    \/ InsertClassDiary \/ InsertFeesSummary \/ InsertInstallments
    \/ InsertTeacherSalaryStructure \/ InsertTeacherSalaryPayslip
    \/ LoadComplete \/ StageFail
LiveSpec == Spec /\ WF_vars(RunOn)

(***************************************************************************)
(* Vocabulary of the properties.                                           *)
(***************************************************************************)
\* The primary-key column of each table.
Pk ==
    [ss_t_schools |-> "school_id", ss_t_grades |-> "grade_id",
     ss_t_sections |-> "section_id", ss_t_subjects |-> "subject_id",
     ss_t_teachers |-> "teacher_id", ss_t_students |-> "student_id",
     ss_t_teacher_subject |-> "id", ss_t_teacher_grade_section |-> "id",
     ss_t_timeslots |-> "timeslot_id", ss_t_timetable |-> "id",
     ss_t_attendance |-> "id", ss_t_homework_details |-> "id",
     ss_t_class_diary |-> "id", ss_t_fees_summary |-> "fee_id",
     ss_t_installments |-> "id", ss_t_teacher_salary_structure |-> "id",
     ss_t_teacher_salary_payslip |-> "id"]

Ids(d, t) == {r[Pk[t]] : r \in d[t]}

\* The rows of table t the step from d to e created.
Created(d, e, t) == {r \in e[t] : r[Pk[t]] \notin Ids(d, t)}

\* Stage st has just run to its end.
Ran(st) == pc = st /\ pc' = After(st)

\* Stage st has finished in the running invocation.
Finished(st) ==
    /\ pc \in {StageOrder[i] : i \in 1..Len(StageOrder)} \cup {"done"}
    /\ pc = "done" \/ StageIndex(st) < StageIndex(pc)

Rows(df) == {df[i] : i \in 1..Len(df)}

\* C1: running the whole load a second time on the same workbook leaves
\* every table with the same rows and field values as the first run did.
C1_LoadTwiceEqualsLoadOnce ==
    pc = "done" => main(db, wb).db = db

\* C2: every non-null reference field of every row holds the identifier of
\* a persisted row of the referenced kind.
RefOk(v, t) == v = NULL \/ v \in Ids(db, t)
C2_ReferentialIntegrity ==
    /\ \A r \in db.ss_t_grades \cup db.ss_t_subjects \cup db.ss_t_teachers
             \cup db.ss_t_students : RefOk(r.school_id, "ss_t_schools")
    /\ \A r \in db.ss_t_sections \cup db.ss_t_students
             \cup db.ss_t_teacher_grade_section \cup db.ss_t_timetable
             \cup db.ss_t_homework_details \cup db.ss_t_class_diary :
          RefOk(r.grade_id, "ss_t_grades")
    /\ \A r \in db.ss_t_students \cup db.ss_t_teacher_grade_section
             \cup db.ss_t_timetable \cup db.ss_t_homework_details
             \cup db.ss_t_class_diary : RefOk(r.section_id, "ss_t_sections")
    /\ \A r \in db.ss_t_teacher_subject \cup db.ss_t_timetable
             \cup db.ss_t_homework_details \cup db.ss_t_class_diary :
          RefOk(r.subject_id, "ss_t_subjects")
    /\ \A r \in db.ss_t_teacher_subject \cup db.ss_t_teacher_grade_section
             \cup db.ss_t_timetable \cup db.ss_t_homework_details
             \cup db.ss_t_class_diary \cup db.ss_t_teacher_salary_structure
             \cup db.ss_t_teacher_salary_payslip :
          RefOk(r.teacher_id, "ss_t_teachers")
    /\ \A r \in db.ss_t_attendance \cup db.ss_t_fees_summary :
          RefOk(r.student_id, "ss_t_students")
    /\ \A r \in db.ss_t_timetable : RefOk(r.timeslot_id, "ss_t_timeslots")
    /\ \A r \in db.ss_t_installments : RefOk(r.fee_id, "ss_t_fees_summary")

\* The sections stage created a row for sheet row r: a new section named as
\* r names it, under a grade named as r names it.
SectionCreatedFor(r) ==
    \E sec \in Created(db, db', "ss_t_sections") :
        /\ sec.section_name = r.section_name
        /\ \E g \in db.ss_t_grades :
              g.grade_id = sec.grade_id /\ g.grade_name = r.grade_name

\* C3 as stated: a sections-sheet row whose grade_name does not appear in the
\* grades sheet of the load is never inserted.
C3_UnknownGradeInSheetNeverInserted ==
    [][Ran("sections") =>
          \A r \in Rows(wb.sections) :
             r.grade_name \notin {g.grade_name : g \in Rows(wb.grades)}
                => ~SectionCreatedFor(r)]_vars

\* C3 as amended: a sections-sheet row whose grade_name is not the name of a
\* grade persisted for the load's school when the Grade stage has finished
\* is never inserted.
GradeNamesOfSchool(d, school_id) ==
    {g.grade_name : g \in {x \in d.ss_t_grades :
                              school_id # NULL /\ x.school_id = school_id}}
C3_UnknownGradeNeverInserted ==
    [][Ran("sections") =>
          \A r \in Rows(wb.sections) :
             r.grade_name \notin GradeNamesOfSchool(db, local.school_id)
                => ~SectionCreatedFor(r)]_vars

\* C3 witness: a load whose sections sheet names a grade unknown to the
\* school has passed the sections stage, and no section of that name exists.
C3_Witness ==
    /\ Finished("sections")
    /\ \E r \in Rows(wb.sections) :
          /\ r.grade_name \notin GradeNamesOfSchool(db, local.school_id)
          /\ \A sec \in db.ss_t_sections : sec.section_name # r.section_name
    /\ db.ss_t_sections # {}

\* C4: a students-sheet row citing a grade/section pair that is not in the
\* section map inserts no student, and the returned student hint map has no
\* entry for that row's student_id_hint.
CitesUnknownSection(r) ==
    /\ ~isna(r.grade_name) /\ ~isna(r.section_name)
    /\ ~KnownSection(r, local.grade_map, local.section_map)
C4_SkippedStudentHasNoHint ==
    [][Ran("students") =>
          \A r \in Rows(wb.students) :
             CitesUnknownSection(r) =>
                /\ r.student_id_hint \notin DOMAIN local'.student_hint_map
                /\ \A st \in Created(db, db', "ss_t_students") :
                      st.email = r.email =>
                         \E q \in Rows(wb.students) :
                            q.email = r.email /\ ~CitesUnknownSection(q)]_vars

\* The rows of a kind that hint h denotes: the persisted rows whose natural
\* key stands next to h in that kind's own sheet.
TeachersHinted(d, h) ==
    {t.teacher_id : t \in {x \in d.ss_t_teachers :
        /\ x.school_id = local.school_id
        /\ \E r \in Rows(wb.teachers) :
              r.teacher_id_hint = h /\ r.email = x.email}}
SubjectsHinted(d, h) ==
    {t.subject_id : t \in {x \in d.ss_t_subjects :
        /\ x.school_id = local.school_id
        /\ \E r \in Rows(wb.subjects) :
              r.subject_id_hint = h /\ r.subject_name = x.subject_name}}
StudentsHinted(d, h) ==
    {t.student_id : t \in {x \in d.ss_t_students :
        \E r \in Rows(wb.students) :
           r.student_id_hint = h /\ r.email = x.email}}

\* C5: a teacher, subject or student hint is resolved only to a row of its
\* own kind, the one its own sheet names next to the hint; this holds for
\* the hint maps and for every row the hinted stages create.
C5_HintIsolation ==
    [][/\ Ran("hint_maps") =>
            /\ \A h \in DOMAIN local'.teacher_hint_map :
                  local'.teacher_hint_map[h] \in TeachersHinted(db, h)
            /\ \A h \in DOMAIN local'.subject_hint_map :
                  local'.subject_hint_map[h] \in SubjectsHinted(db, h)
       /\ Ran("students") =>
            \A h \in DOMAIN local'.student_hint_map :
               local'.student_hint_map[h] \in StudentsHinted(db', h)
       /\ Ran("teacher_subjects") =>
            \A n \in Created(db, db', "ss_t_teacher_subject") :
               \E r \in Rows(wb.teacher_subjects) :
                  /\ n.teacher_id \in TeachersHinted(db, r.teacher_id_hint)
                  /\ n.subject_id \in SubjectsHinted(db, r.subject_id_hint)
       /\ Ran("teacher_grade_section") =>
            \A n \in Created(db, db', "ss_t_teacher_grade_section") :
               \E r \in Rows(wb.teacher_grade_section) :
                  n.teacher_id \in TeachersHinted(db, r.teacher_id_hint)
       /\ Ran("attendance") =>
            \A n \in Created(db, db', "ss_t_attendance") :
               \E r \in Rows(wb.attendance) :
                  n.student_id \in StudentsHinted(db, r.student_id_hint)
       /\ Ran("fees_summary") =>
            \A n \in Created(db, db', "ss_t_fees_summary") :
               \E r \in Rows(wb.fees_summary) :
                  n.student_id \in StudentsHinted(db, r.student_id_hint)
      ]_vars

\* C5 witness: one hint value is in all three hint maps, denotes a teacher
\* and a subject with different identifiers, and the hinted stages have
\* written their rows.
C5_Witness ==
    /\ Finished("attendance")
    /\ \E h \in DOMAIN local.teacher_hint_map \cap DOMAIN local.subject_hint_map
                \cap DOMAIN local.student_hint_map :
          local.teacher_hint_map[h] # local.subject_hint_map[h]
    /\ db.ss_t_teacher_subject # {}
    /\ db.ss_t_attendance # {}

\* A sheet cell as it is stored: a missing value becomes NULL.
Stored(v) == IF isna(v) THEN None ELSE v

\* The sheet rows (by index) of the running financial stage that are
\* upserted under the unique key of the stored row old.
FeeHits(old) ==
    {i \in 1..Len(wb.fees_summary) :
        LET r == wb.fees_summary[i]
        IN /\ ~isnan(r.student_id_hint)
           /\ Get(local.student_hint_map, r.student_id_hint) = old.student_id}
InstallmentHits(old) ==
    {i \in 1..Len(wb.installments) :
        LET r == wb.installments[i]
        IN /\ ~isnan(r.student_id_hint) /\ ~isna(r.installment_no)
           /\ Get(local.student_hint_map, r.student_id_hint) # NULL
           /\ Get(local.fee_map, Get(local.student_hint_map, r.student_id_hint))
                 = old.fee_id
           /\ r.installment_no = old.installment_no}
StructureHits(old) ==
    {i \in 1..Len(wb.salary_structure) :
        LET r == wb.salary_structure[i]
        IN ~isna(r.teacher_email)
           /\ Get(local.teacher_map, r.teacher_email) = old.teacher_id}
PayslipHits(old) ==
    {i \in 1..Len(wb.salary_payslips) :
        LET r == wb.salary_payslips[i]
        IN /\ ~isna(r.teacher_email) /\ ~isna(r.year) /\ ~isna(r.month)
           /\ Get(local.teacher_map, r.teacher_email) = old.teacher_id
           /\ r.year = old.year /\ r.month = old.month}

\* C6: when a FeeSummary, Installment, SalaryStructure or SalaryPayslip row
\* is upserted onto a stored row with the same unique key, every non-key
\* value column of the stored row holds the incoming (last) row's value
\* afterwards, under the same identifier.
C6_FinancialOverwrite ==
    [][/\ Ran("fees_summary") =>
            \A old \in db.ss_t_fees_summary :
               FeeHits(old) # {} =>
                  LET r == wb.fees_summary[Max(FeeHits(old))]
                  IN [old EXCEPT !.total_fee = Stored(r.total_fee),
                                 !.concession = Stored(r.concession),
                                 !.net_payable = Stored(r.net_payable),
                                 !.amount_paid = Stored(r.amount_paid)]
                        \in db'.ss_t_fees_summary
       /\ Ran("installments") =>
            \A old \in db.ss_t_installments :
               InstallmentHits(old) # {} =>
                  LET r == wb.installments[Max(InstallmentHits(old))]
                  IN [old EXCEPT !.amount = Stored(r.amount),
                                 !.due_date = Stored(r.due_date),
                                 !.paid_date = Stored(r.paid_date),
                                 !.paid_status = Stored(r.paid_status)]
                        \in db'.ss_t_installments
       /\ Ran("salary_structure") =>
            \A old \in db.ss_t_teacher_salary_structure :
               StructureHits(old) # {} =>
                  LET r == wb.salary_structure[Max(StructureHits(old))]
                  IN [old EXCEPT !.basic_pay = Stored(r.basic_pay),
                                 !.allowances = Stored(r.allowances),
                                 !.deductions = Stored(r.deductions)]
                        \in db'.ss_t_teacher_salary_structure
       /\ Ran("salary_payslips") =>
            \A old \in db.ss_t_teacher_salary_payslip :
               PayslipHits(old) # {} =>
                  LET r == wb.salary_payslips[Max(PayslipHits(old))]
                  IN [old EXCEPT !.basic_pay = Stored(r.basic_pay),
                                 !.allowances = Stored(r.allowances),
                                 !.deductions = Stored(r.deductions),
                                 !.net_pay = Stored(r.net_pay)]
                        \in db'.ss_t_teacher_salary_payslip
      ]_vars

\* C6 witness: a fee summary re-loaded with a changed amount_paid holds the
\* new value, while the installment an earlier load stored under it shows
\* that the summary existed before.
C6_Witness ==
    /\ pc = "installments"
    /\ \E f \in db.ss_t_fees_summary :
          /\ f.amount_paid = "80" /\ f.total_fee = "120"
          /\ \E i \in db.ss_t_installments :
                i.fee_id = f.fee_id /\ i.amount = "50"

\* The identity kinds: their stage, their unique key and the columns their
\* update clause names.
IdentityStages ==
    {"schools", "grades", "sections", "subjects", "teachers", "students"}
KeyCols ==
    [ss_t_schools |-> {"school_name"},
     ss_t_grades |-> {"school_id", "grade_name"},
     ss_t_sections |-> {"grade_id", "section_name"},
     ss_t_subjects |-> {"school_id", "subject_name"},
     ss_t_teachers |-> {"school_id", "email"},
     ss_t_students |-> {"email"}]
UpdateCols ==
    [ss_t_schools |-> {"school_name"},
     ss_t_grades |-> {"description"},
     ss_t_sections |-> {"capacity"},
     ss_t_subjects |-> {"subject_name"},
     ss_t_teachers |-> {"first_name", "last_name", "is_active"},
     ss_t_students |-> {"first_name", "last_name", "guardian_name"}]
IsNullIn(c, v) == IF c \in {"school_id", "grade_id"} THEN v = NULL ELSE v = None
SameKey(t, a, b) ==
    \A c \in KeyCols[t] : a[c] = b[c] /\ ~IsNullIn(c, b[c])

\* C7: when an identity kind is re-loaded, every stored row keeps its
\* identifier, its key columns and every column outside the kind's update
\* clause, and no row is created under the key of a stored row.
C7_IdentityUpsertFrame ==
    [][\A st \in IdentityStages :
          Ran(st) =>
             LET t == TableOf[st]
             IN /\ \A old \in db[t] :
                      \E new \in db'[t] :
                         /\ new[Pk[t]] = old[Pk[t]]
                         /\ \A c \in KeyCols[t] : new[c] = old[c]
                         /\ \A c \in DOMAIN old \ UpdateCols[t] : new[c] = old[c]
                /\ \A n \in Created(db, db', t) :
                      ~\E old \in db[t] : SameKey(t, old, n)
                /\ Cardinality(db'[t]) = Cardinality(Ids(db', t))]_vars

\* C7 witness: grade G1 was re-loaded with another description and another
\* tuition_fee; the description is the new one, the tuition_fee the old one.
C7_Witness ==
    /\ Finished("grades")
    /\ \E g \in db.ss_t_grades :
          g.grade_name = "G1" /\ g.description = "d2" /\ g.tuition_fee = "f1"

\* The attendance rows (by index) that cite a hint of the student hint map
\* with a date and a status.
AttendanceCited ==
    {i \in 1..Len(wb.attendance) :
        LET r == wb.attendance[i]
        IN /\ ~isnan(r.student_id_hint) /\ ~isna(r.date) /\ ~isna(r.status)
           /\ r.student_id_hint \in DOMAIN local.student_hint_map}
AttendanceOf(d, student_id, date) ==
    {a \in d.ss_t_attendance :
        a.student_id = student_id /\ a.attendance_date = date}

\* C8: after the attendance stage there is exactly one record for the
\* (student, date) of every cited row; a record that existed before keeps
\* its identifier and changes at most its status, to the status the sheet
\* gives last; records no row cites are untouched.
C8_AttendanceOneRecord ==
    [][Ran("attendance") =>
          /\ \A i \in AttendanceCited :
                LET r == wb.attendance[i]
                    sid == local.student_hint_map[r.student_id_hint]
                    last == Max({j \in AttendanceCited :
                        /\ wb.attendance[j].date = r.date
                        /\ local.student_hint_map[wb.attendance[j].student_id_hint]
                              = sid})
                IN /\ Cardinality(AttendanceOf(db', sid, r.date)) = 1
                   /\ \A a \in AttendanceOf(db', sid, r.date) :
                         a.status = wb.attendance[last].status
                   /\ \A a \in AttendanceOf(db, sid, r.date) :
                         [a EXCEPT !.status = wb.attendance[last].status]
                            \in db'.ss_t_attendance
          /\ \A a \in db.ss_t_attendance :
                (\A i \in AttendanceCited :
                    \/ wb.attendance[i].date # a.attendance_date
                    \/ local.student_hint_map[wb.attendance[i].student_id_hint]
                          # a.student_id)
                   => a \in db'.ss_t_attendance]_vars

\* C8 witness: a student has a record for d2, which only the workbook with
\* status A for d1 creates, and the record for d1 is back at status P: the
\* record was inserted by one load and updated in place by the next.
C8_Witness ==
    /\ Finished("attendance")
    /\ \E a, b \in db.ss_t_attendance :
          /\ a.student_id = b.student_id
          /\ a.attendance_date = "d1" /\ a.status = "P"
          /\ b.attendance_date = "d2"

\* The order of the stages as the claim lists it.
ClaimedOrder ==
    <<"schools", "school_id", "grades", "sections", "subjects", "teachers",
      "hint_maps", "students", "teacher_subjects", "teacher_grade_section",
      "timeslots", "timetable", "attendance", "homework", "class_diary",
      "fees_summary", "installments", "salary_structure", "salary_payslips",
      "complete", "done">>

\* The mappings a stage consumes, and what a read-back of the database
\* gives for each at this moment.
Consumes ==
    [s \in {StageOrder[i] : i \in 1..Len(StageOrder)} |->
        CASE s = "sections" -> {"grade_map"}
          [] s = "hint_maps" -> {"teacher_map", "subject_map"}
          [] s \in {"students", "teacher_grade_section"} ->
                {"grade_map", "section_map"}
          [] s \in {"timetable", "homework", "class_diary"} ->
                {"grade_map", "section_map", "subject_map", "teacher_map"}
          [] s = "installments" -> {"fee_map"}
          [] s \in {"salary_structure", "salary_payslips"} -> {"teacher_map"}
          [] OTHER -> {}]
OfSchool(T) == {x \in T : local.school_id # NULL /\ x.school_id = local.school_id}
ReadBack(name) ==
    CASE name = "grade_map" ->
            DictOf(OfSchool(db.ss_t_grades), "grade_name", "grade_id")
      [] name = "section_map" ->
            [g \in DOMAIN local.grade_map |->
                DictOf({x \in db.ss_t_sections : x.grade_id = local.grade_map[g]},
                       "section_name", "section_id")]
      [] name = "subject_map" ->
            DictOf(OfSchool(db.ss_t_subjects), "subject_name", "subject_id")
      [] name = "teacher_map" ->
            DictOf(OfSchool(db.ss_t_teachers), "email", "teacher_id")
      [] name = "fee_map" ->
            DictOf(db.ss_t_fees_summary, "student_id", "fee_id")

\* C9: main moves through the stages in the claimed order only; the
\* database changes only in the table of the stage that is running; and
\* when a stage runs, every mapping it consumes is the complete read-back
\* of the kind it references.
C9_StageOrdering ==
    [][/\ pc' # pc =>
            \/ pc \in {"idle", "done", "aborted"} /\ pc' = "schools"
            \/ pc' = "aborted"
            \/ \E i \in 1..(Len(ClaimedOrder) - 1) :
                  pc = ClaimedOrder[i] /\ pc' = ClaimedOrder[i + 1]
       /\ db' # db =>
            /\ pc \in TxStages
            /\ \A t \in Tables : db'[t] # db[t] => t = TableOf[pc]
       /\ \A st \in DOMAIN Consumes :
             (pc = st /\ pc' # pc) =>
                \A name \in Consumes[st] : local[name] = ReadBack(name)
      ]_vars

\* C9 witness: a load has run every stage to the end and the last stage
\* wrote rows that reference rows of the fifth.
C9_Witness ==
    /\ pc = "done"
    /\ db.ss_t_students # {}
    /\ \E p \in db.ss_t_teacher_salary_payslip :
          p.teacher_id \in Ids(db, "ss_t_teachers")

\* C10: when a stage raises, the database is left exactly as it was when
\* the stage began: none of the stage's writes persist, and every write of
\* the earlier stages does.
C10_StageAtomicity ==
    [][(pc \in TxStages /\ pc' = "aborted") => db' = db]_vars

\* C10 witness: a load was aborted in the sections stage: the grades the
\* stage before committed are stored and no row of the sections sheet is.
C10_Witness ==
    /\ pc = "aborted"
    /\ db.ss_t_grades # {}
    /\ db.ss_t_sections = {}
    /\ \E r \in Rows(wb.sections) : r.grade_name \in DOMAIN local.grade_map

\* The cells of a sheet row its kind requires: the natural-key fields and
\* the references of the kind.
RequiredCells ==
    [schools |-> {"school_name"},
     grades |-> {"grade_name"},
     sections |-> {"grade_name", "section_name"},
     subjects |-> {"subject_name"},
     teachers |-> {"email"},
     students |-> {"grade_name", "section_name", "email"},
     teacher_subjects |-> {"teacher_id_hint", "subject_id_hint"},
     teacher_grade_section |-> {"teacher_id_hint", "grade_name", "section_name"},
     timeslots |-> {"day_of_week", "period_number"},
     timetable |-> {"grade_name", "section_name", "day_of_week",
                    "period_number", "subject_name", "teacher_email"},
     attendance |-> {"student_id_hint", "date"},
     homework |-> {"teacher_email", "grade_name", "section_name", "subject_name"},
     class_diary |-> {"teacher_email", "grade_name", "section_name", "subject_name"},
     fees_summary |-> {"student_id_hint"},
     installments |-> {"student_id_hint", "installment_no"},
     salary_structure |-> {"teacher_email"},
     salary_payslips |-> {"teacher_email", "year", "month"}]
Missing(r, c) == IF c \in IntCols THEN isnan(r[c]) ELSE isna(r[c])
\* The rows (by index) of the sheet of stage st with no required cell missing.
Complete(st) ==
    {i \in 1..Len(wb[SheetOf[st]]) :
        \A c \in RequiredCells[st] : ~Missing(wb[SheetOf[st]][i], c)}

\* C11: a sheet row with a missing required cell causes no insert, for every
\* kind: a stage that runs to its end creates at most one row per sheet row
\* whose required cells are all present.
C11_MissingFieldRowSkipped ==
    [][\A st \in TxStages :
          Ran(st) => Cardinality(Created(db, db', TableOf[st]))
                        <= Cardinality(Complete(st))]_vars

\* The hint columns of the sheets and the hint values a workbook carries.
HintCols == {"teacher_id_hint", "subject_id_hint", "student_id_hint"}
HintValues(w) ==
    UNION {UNION {{r[c] : c \in DOMAIN r \cap HintCols} : r \in Rows(w[s])} :
              s \in Sheets} \ {NaNHint}
\* The reference columns and the table each of them points into.
RefCols ==
    [school_id |-> "ss_t_schools", grade_id |-> "ss_t_grades",
     section_id |-> "ss_t_sections", subject_id |-> "ss_t_subjects",
     teacher_id |-> "ss_t_teachers", student_id |-> "ss_t_students",
     timeslot_id |-> "ss_t_timeslots", fee_id |-> "ss_t_fees_summary"]

\* C12: hints are never persisted: no table has a hint column, every
\* identifier is the auto-assigned one (1..n in a table of n rows), and a
\* reference column holds a value that occurs as a hint in the workbook only
\* when that value is the identifier of a persisted row of the referenced
\* kind.
C12_HintsNotPersisted ==
    \A t \in Tables : \A r \in db[t] :
       /\ DOMAIN r \cap HintCols = {}
       /\ r[Pk[t]] \in 1..Cardinality(db[t])
       /\ \A c \in (DOMAIN r \cap DOMAIN RefCols) \ {Pk[t]} :
             r[c] \in HintValues(wb) => r[c] \in Ids(db, RefCols[c])

\* C12 witness: the hint maps of the running invocation hold hint values
\* that are no identifier of any row, and the hinted stages have written
\* rows through them.
C12_Witness ==
    /\ Finished("installments")
    /\ \E h \in DOMAIN local.teacher_hint_map \cap DOMAIN local.student_hint_map :
          \A t \in Tables : h \notin Ids(db, t)
    /\ db.ss_t_teacher_subject # {} /\ db.ss_t_teacher_grade_section # {}
    /\ db.ss_t_attendance # {} /\ db.ss_t_fees_summary # {}
    /\ db.ss_t_installments # {}

\* Lists of required fields: columns of the sheets, text and integer, and a
\* column no sheet has.
NormalizerKeys ==
    {"grade_name", "tuition_fee", "email", "school_id", "profile_pic_location"}
NullOf(k) == IF k \in IntCols THEN NULL ELSE None

\* C13: for every row of the workbook and every list of required fields,
\* ensure_keys returns a map with exactly the row's fields and the required
\* fields, a required field holding the row's value when the row has a
\* non-missing one and null otherwise, every other field unchanged.
C13_RowNormalizer ==
    \A s \in Sheets : \A r \in Rows(wb[s]) : \A K \in SUBSET NormalizerKeys :
       LET d == ensure_keys(r, K)
       IN /\ DOMAIN d = DOMAIN r \cup K
          /\ \A k \in K :
                d[k] = IF k \in DOMAIN r /\ ~Missing(r, k) THEN r[k]
                       ELSE NullOf(k)
          /\ \A k \in DOMAIN r \ K : d[k] = r[k]

\* C13 witness: the grades stage has normalized a row whose grade_name is
\* NaN and whose sheet has no tuition_fee column, and stored both as NULL.
C13_Witness ==
    /\ Finished("grades")
    /\ \E r \in Rows(wb.grades) :
          r.grade_name = NaN /\ "tuition_fee" \notin DOMAIN r
    /\ \E g \in db.ss_t_grades : g.grade_name = None /\ g.tuition_fee = None

\* A mapping as its set of (key, identifier) pairs, and the pairs of the
\* rows of a table.
Pairs(m) == {<<k, m[k]>> : k \in DOMAIN m}
PairsOf(T, keycol, idcol) == {<<r[keycol], r[idcol]>> : r \in T}
SchoolRows(T, school_id) ==
    {x \in T : school_id # NULL /\ x.school_id = school_id}

\* C14: when the Grade, Subject or Teacher stage returns, its map is exactly
\* the set of (natural key, identifier) pairs of all rows of the kind stored
\* for the school, and the Section map holds for every grade of the grade
\* map exactly the stored sections of that grade.
C14_ReadBackIsFullTable ==
    [][/\ Ran("grades") =>
            Pairs(local'.grade_map) =
               PairsOf(SchoolRows(db'.ss_t_grades, local.school_id),
                       "grade_name", "grade_id")
       /\ Ran("subjects") =>
            Pairs(local'.subject_map) =
               PairsOf(SchoolRows(db'.ss_t_subjects, local.school_id),
                       "subject_name", "subject_id")
       /\ Ran("teachers") =>
            Pairs(local'.teacher_map) =
               PairsOf(SchoolRows(db'.ss_t_teachers, local.school_id),
                       "email", "teacher_id")
       /\ Ran("sections") =>
            /\ DOMAIN local'.section_map = DOMAIN local.grade_map
            /\ \A g \in DOMAIN local.grade_map :
                  Pairs(local'.section_map[g]) =
                     PairsOf({x \in db'.ss_t_sections :
                                 x.grade_id = local.grade_map[g]},
                             "section_name", "section_id")
      ]_vars

\* The unique key of every kind that has one, and the columns its update
\* clause assigns.
UniqueKey ==
    KeyCols @@
    [ss_t_teacher_subject |-> {"teacher_id", "subject_id"},
     ss_t_teacher_grade_section |-> {"teacher_id", "grade_id", "section_id"},
     ss_t_timeslots |-> {"day_of_week", "period_number"},
     ss_t_timetable |-> {"grade_id", "section_id", "timeslot_id"},
     ss_t_attendance |-> {"student_id", "attendance_date"},
     ss_t_fees_summary |-> {"student_id"},
     ss_t_installments |-> {"fee_id", "installment_no"},
     ss_t_teacher_salary_structure |-> {"teacher_id"},
     ss_t_teacher_salary_payslip |-> {"teacher_id", "year", "month"}]
ClauseCols ==
    UpdateCols @@
    [ss_t_teacher_subject |-> {"teacher_id"},
     ss_t_teacher_grade_section |-> {"teacher_id"},
     ss_t_timeslots |-> {"start_time", "end_time"},
     ss_t_timetable |-> {"subject_id", "teacher_id", "room_number"},
     ss_t_attendance |-> {"status"},
     ss_t_fees_summary |-> {"total_fee", "concession", "net_payable", "amount_paid"},
     ss_t_installments |-> {"amount", "due_date", "paid_date", "paid_status"},
     ss_t_teacher_salary_structure |-> {"basic_pay", "allowances", "deductions"},
     ss_t_teacher_salary_payslip |-> {"basic_pay", "allowances", "deductions", "net_pay"}]
KeyedStages == {st \in TxStages : TableOf[st] \in DOMAIN UniqueKey}
NullCol(c, v) == IF c \in DOMAIN RefCols THEN v = NULL ELSE v = None

\* What row i of the sheet of stage st stores when it is the only row and
\* the table is empty: no row when the stage skips it, else one row with
\* the column values the stage takes from it.
Image(st, i) ==
    RunStage(st, [db EXCEPT ![TableOf[st]] = {}],
             [wb EXCEPT ![SheetOf[st]] = <<wb[SheetOf[st]][i]>>],
             local).db[TableOf[st]]
The(S) == CHOOSE x \in S : TRUE
SameUnique(t, a, b) == \A c \in UniqueKey[t] : a[c] = b[c]
\* The rows of the sheet that are upserted under a non-null unique key.
Keyed(st) ==
    {i \in 1..Len(wb[SheetOf[st]]) :
        /\ Image(st, i) # {}
        /\ \A c \in UniqueKey[TableOf[st]] : ~NullCol(c, The(Image(st, i))[c])}
Twins(st, i) ==
    {j \in Keyed(st) :
        SameUnique(TableOf[st], The(Image(st, j)), The(Image(st, i)))}
\* Row i is the last of two or more sheet rows with its unique key.
LastOfSeveral(st, i) ==
    /\ i \in Keyed(st)
    /\ Cardinality(Twins(st, i)) > 1
    /\ \A j \in Twins(st, i) : j <= i
StoredUnder(d, t, n) == {s \in d[t] : SameUnique(t, s, n)}

\* C15 as stated: of several sheet rows with one unique key, the single
\* stored row holds the column values of the last-processed one.
C15_LastRowWinsAllColumns ==
    [][\A st \in KeyedStages :
          Ran(st) =>
             \A i \in 1..Len(wb[SheetOf[st]]) :
                LastOfSeveral(st, i) =>
                   LET t == TableOf[st]
                       n == The(Image(st, i))
                   IN /\ Cardinality(StoredUnder(db', t, n)) = 1
                      /\ \A c \in DOMAIN n \ {Pk[t]} :
                            The(StoredUnder(db', t, n))[c] = n[c]]_vars

\* C15 as amended: the single stored row holds the last-processed row's
\* value in every column of the kind's update clause; every other column
\* keeps the value stored before the stage or, when the key was new, the
\* value of the first-processed of those rows.
C15_LastRowWinsUpdateClause ==
    [][\A st \in KeyedStages :
          Ran(st) =>
             \A i \in 1..Len(wb[SheetOf[st]]) :
                LastOfSeveral(st, i) =>
                   LET t == TableOf[st]
                       n == The(Image(st, i))
                       first == The(Image(st,
                                   CHOOSE j \in Twins(st, i) :
                                      \A k \in Twins(st, i) : j <= k))
                       origin == IF StoredUnder(db, t, n) # {}
                                 THEN The(StoredUnder(db, t, n)) ELSE first
                   IN /\ Cardinality(StoredUnder(db', t, n)) = 1
                      /\ \A c \in ClauseCols[t] :
                            The(StoredUnder(db', t, n))[c] = n[c]
                      /\ \A c \in DOMAIN n \ (ClauseCols[t] \cup {Pk[t]}) :
                            The(StoredUnder(db', t, n))[c] = origin[c]]_vars

\* C15 witness: the grades sheet has two rows with one grade_name that
\* differ in description and tuition_fee, the grades stage has run, and the
\* stored grade has the description of the later row and the tuition_fee of
\* the earlier one.
C15_Witness ==
    /\ Finished("grades")
    /\ \E i, j \in 1..Len(wb.grades) :
          /\ i < j
          /\ wb.grades[i].grade_name = wb.grades[j].grade_name
          /\ wb.grades[i].description # wb.grades[j].description
          /\ "tuition_fee" \in DOMAIN wb.grades[i]
          /\ wb.grades[i].tuition_fee # wb.grades[j].tuition_fee
          /\ \E g \in db.ss_t_grades :
                /\ g.grade_name = wb.grades[j].grade_name
                /\ g.description = wb.grades[j].description
                /\ g.tuition_fee = wb.grades[i].tuition_fee

\* C16: once the hint maps are built, every entry h -> id of the teacher,
\* subject and student hint map has a row in the kind's own sheet that
\* carries h next to a natural key, and id identifies the one persisted row
\* of the kind with that key; a hint none of whose rows names a persisted
\* natural key has no entry.
C16_HintMapCorrect ==
    /\ Finished("hint_maps") =>
          /\ \A h \in DOMAIN local.teacher_hint_map :
                TeachersHinted(db, h) = {local.teacher_hint_map[h]}
             \/ /\ local.teacher_hint_map[h] \in TeachersHinted(db, h)
                /\ \E r, q \in Rows(wb.teachers) :
                      /\ r.teacher_id_hint = h /\ q.teacher_id_hint = h
                      /\ r.email # q.email
          /\ \A h \in DOMAIN local.subject_hint_map :
                SubjectsHinted(db, h) = {local.subject_hint_map[h]}
             \/ /\ local.subject_hint_map[h] \in SubjectsHinted(db, h)
                /\ \E r, q \in Rows(wb.subjects) :
                      /\ r.subject_id_hint = h /\ q.subject_id_hint = h
                      /\ r.subject_name # q.subject_name
          /\ \A r \in Rows(wb.teachers) :
                TeachersHinted(db, r.teacher_id_hint) = {}
                   => r.teacher_id_hint \notin DOMAIN local.teacher_hint_map
          /\ \A r \in Rows(wb.subjects) :
                SubjectsHinted(db, r.subject_id_hint) = {}
                   => r.subject_id_hint \notin DOMAIN local.subject_hint_map
    /\ Finished("students") =>
          /\ \A h \in DOMAIN local.student_hint_map :
                StudentsHinted(db, h) = {local.student_hint_map[h]}
             \/ /\ local.student_hint_map[h] \in StudentsHinted(db, h)
                /\ \E r, q \in Rows(wb.students) :
                      /\ r.student_id_hint = h /\ q.student_id_hint = h
                      /\ r.email # q.email
          /\ \A r \in Rows(wb.students) :
                StudentsHinted(db, r.student_id_hint) = {}
                   => r.student_id_hint \notin DOMAIN local.student_hint_map

\* C16 witness: all three hint maps have entries, and the students sheet
\* has a row with a hint whose e-mail no student has and that has no entry.
C16_Witness ==
    /\ Finished("students")
    /\ local.teacher_hint_map # << >> /\ local.subject_hint_map # << >>
    /\ local.student_hint_map # << >>
    /\ \E r \in Rows(wb.students) :
          /\ ~isnan(r.student_id_hint) /\ ~isna(r.email)
          /\ \A x \in db.ss_t_students : x.email # r.email
          /\ r.student_id_hint \notin DOMAIN local.student_hint_map

\* The stages that resolve a hint, and the rows of their sheets that carry
\* a hint without an entry in the hint map it is looked up in.
HintedStages ==
    {"teacher_subjects", "teacher_grade_section", "attendance",
     "fees_summary", "installments"}
NoEntry(h, m) == ~isnan(h) /\ h \notin DOMAIN m
UnknownHint(st, r) ==
    CASE st = "teacher_subjects" ->
            \/ NoEntry(r.teacher_id_hint, local.teacher_hint_map)
            \/ NoEntry(r.subject_id_hint, local.subject_hint_map)
      [] st = "teacher_grade_section" ->
            NoEntry(r.teacher_id_hint, local.teacher_hint_map)
      [] OTHER -> NoEntry(r.student_id_hint, local.student_hint_map)
\* The sheet of stage st without its rows of unknown hint.
KnownOnly(st) ==
    LET df == wb[SheetOf[st]]
        keep[i \in 0..Len(df)] ==
            IF i = 0 THEN << >>
            ELSE IF UnknownHint(st, df[i]) THEN keep[i - 1]
            ELSE Append(keep[i - 1], df[i])
    IN keep[Len(df)]

\* C17: in the TeacherSubject, TeacherGradeSection, AttendanceRecord,
\* FeeSummary and Installment stages a row whose hint has no entry in the
\* hint map raises nothing and inserts nothing, and the other rows are
\* processed: the stage ends normally and leaves what it would leave on the
\* sheet without those rows.
C17_UnknownHintSkipped ==
    [][\A st \in HintedStages :
          /\ pc = st => RunStage(st, db, wb, local).ok
          /\ Ran(st) =>
                /\ db' = RunStage(st, db,
                                  [wb EXCEPT ![SheetOf[st]] = KnownOnly(st)],
                                  local).db
                /\ Cardinality(Created(db, db', TableOf[st]))
                      <= Len(KnownOnly(st))]_vars

\* C17 witness: the attendance sheet has a row of unknown hint before a row
\* of known hint, the stage has run, and the only attendance record is the
\* one of the known row.
C17_Witness ==
    /\ Finished("attendance")
    /\ \E i, j \in 1..Len(wb.attendance) :
          /\ i < j
          /\ NoEntry(wb.attendance[i].student_id_hint, local.student_hint_map)
          /\ wb.attendance[j].student_id_hint \in DOMAIN local.student_hint_map
          /\ \E a \in db.ss_t_attendance :
                /\ a.student_id =
                      local.student_hint_map[wb.attendance[j].student_id_hint]
                /\ a.attendance_date = wb.attendance[j].date
    /\ Cardinality(db.ss_t_attendance) = 1

\* The persisted timeslots a timetable row cites.
SlotsCited(d, r) ==
    {ts \in d.ss_t_timeslots :
        ts.day_of_week = r.day_of_week /\ ts.period_number = r.period_number}
\* The timetable sheet without the rows that cite no persisted timeslot.
SlottedOnly ==
    LET df == wb.timetable
        keep[i \in 0..Len(df)] ==
            IF i = 0 THEN << >>
            ELSE IF SlotsCited(db, df[i]) = {} THEN keep[i - 1]
            ELSE Append(keep[i - 1], df[i])
    IN keep[Len(df)]
\* Everything but the timeslot of timetable row r resolves.
ResolvesButSlot(r) ==
    /\ ~isna(r.grade_name) /\ ~isna(r.section_name)
    /\ KnownSection(r, local.grade_map, local.section_map)
    /\ Get(local.teacher_map, r.teacher_email) # NULL
    /\ Get(local.subject_map, r.subject_name) # NULL

\* C18: the timetable stage inserts or updates an entry only for a row whose
\* (day_of_week, period_number) is that of a persisted timeslot, with that
\* timeslot's identifier; rows citing no persisted timeslot are skipped
\* without error; a resolvable row citing a persisted timeslot, one of this
\* run's Timeslot stage included, has its entry afterwards.
C18_TimetableTimeslot ==
    [][/\ pc = "timetable" => RunStage("timetable", db, wb, local).ok
       /\ Ran("timetable") =>
            /\ \A n \in db'.ss_t_timetable \ db.ss_t_timetable :
                  \E r \in Rows(wb.timetable) : \E ts \in SlotsCited(db, r) :
                     /\ n.timeslot_id = ts.timeslot_id
                     /\ ResolvesButSlot(r)
                     /\ n.grade_id = local.grade_map[r.grade_name]
                     /\ n.section_id =
                           local.section_map[r.grade_name][r.section_name]
            /\ db' = RunStage("timetable", db,
                              [wb EXCEPT !.timetable = SlottedOnly], local).db
            /\ \A r \in Rows(wb.timetable) : \A ts \in SlotsCited(db, r) :
                  ResolvesButSlot(r) =>
                     \E n \in db'.ss_t_timetable :
                        /\ n.timeslot_id = ts.timeslot_id
                        /\ n.grade_id = local.grade_map[r.grade_name]
                        /\ n.section_id =
                              local.section_map[r.grade_name][r.section_name]
      ]_vars

\* C18 witness: in the first load into the empty database the timetable
\* stage has stored an entry under a timeslot of the same run and has
\* skipped a row that cites a (day, period) without timeslot.
C18_Witness ==
    /\ loads = 1 /\ failures = 0
    /\ Finished("timetable")
    /\ \E n \in db.ss_t_timetable : \E ts \in db.ss_t_timeslots :
          n.timeslot_id = ts.timeslot_id
    /\ \E r \in Rows(wb.timetable) :
          ResolvesButSlot(r) /\ SlotsCited(db, r) = {}

\* The mappings of main and the statement that publishes each.
Publisher ==
    [school_map |-> "schools", school_id |-> "school_id",
     grade_map |-> "grades", section_map |-> "sections",
     subject_map |-> "subjects", teacher_map |-> "teachers",
     teacher_hint_map |-> "hint_maps", subject_hint_map |-> "hint_maps",
     student_hint_map |-> "students", fee_map |-> "fees_summary"]

\* C19: once its stage has returned, a mapping is not changed by any later
\* step of the same invocation.
C19_PublishedMapsImmutable ==
    [][\A m \in DOMAIN Publisher :
          Finished(Publisher[m]) /\ pc' # "schools" => local'[m] = local[m]]_vars

\* C19 witness: an invocation has ended with every mapping non-empty, after
\* stages that consume them have written rows.
C19_Witness ==
    /\ pc = "done"
    /\ \A m \in DOMAIN Publisher \ {"school_id"} : local[m] # << >>
    /\ local.school_id # NULL
    /\ db.ss_t_students # {} /\ db.ss_t_installments # {}

\* main is at one of its statements.
Running == pc \in {StageOrder[i] : i \in 1..Len(StageOrder)}

\* C20: a started invocation ends, either after every statement has run
\* once, in order, with the success message, or at the first statement that
\* raises; a statement that raises writes nothing, and after it nothing of
\* that invocation runs: the next step is a new invocation.
C20_RunToCompletionOrAbort ==
    /\ [][/\ Running /\ pc # "complete" => pc' \in {After(pc), "aborted"}
          /\ pc = "complete" => pc' = "done" /\ db' = db
          /\ pc' = "done" => pc = "complete"
          /\ Running /\ ~RunStage(pc, db, wb, local).ok =>
                pc' = "aborted" /\ db' = db
          /\ pc = "aborted" =>
                pc' = "schools" /\ loads' = loads + 1 /\ db' = db
         ]_vars
    /\ (Running ~> pc \in {"done", "aborted"})

\* C20 witness: of two invocations one has stopped at a statement that
\* raised and the other has run to its success message.
C20_Witness ==
    /\ pc = "done" /\ loads = 2 /\ failures = 1
    /\ db.ss_t_students # {}

\* The tables whose rows carry a grade_id together with a section_id.
GradeSectionTables ==
    {"ss_t_students", "ss_t_teacher_grade_section", "ss_t_timetable",
     "ss_t_homework_details", "ss_t_class_diary"}

\* C21: in every reachable state, every student, teacher/section link,
\* timetable, homework and class diary row has a section_id whose section
\* row belongs to the grade the row's grade_id names.
C21_GradeSectionConsistency ==
    \A t \in GradeSectionTables :
        \A r \in db[t] :
            \E sec \in db.ss_t_sections :
                /\ sec.section_id = r.section_id
                /\ sec.grade_id = r.grade_id

\* Two grades own a section of the same name, every table of the five has
\* rows, and some of them lie in each of the two same-named sections.
C21_Witness ==
    /\ pc = "done" /\ loads = 2
    /\ \A t \in GradeSectionTables : db[t] # {}
    /\ \E a, b \in db.ss_t_sections :
          /\ a.section_name = b.section_name /\ a.grade_id # b.grade_id
          /\ \E r \in db.ss_t_homework_details : r.section_id = a.section_id
          /\ \E r \in db.ss_t_class_diary : r.section_id = b.section_id

\* The rows of table t the step from d to e created or changed.
Touched(d, e, t) == e[t] \ d[t]

\* The student an installment sheet row r cites through its hint, NULL when
\* the hint is missing or has no entry.
StudentCited(r) ==
    IF isnan(r.student_id_hint) THEN NULL
    ELSE Get(local.student_hint_map, r.student_id_hint)

\* The fee summaries persisted for student sid.
FeesOf(d, sid) == {f \in d.ss_t_fees_summary : f.student_id = sid}

\* Sheet row r cites a stored student who has no fee summary.
OwesNoSummary(r) ==
    /\ StudentCited(r) # NULL /\ ~isna(r.installment_no)
    /\ FeesOf(db, StudentCited(r)) = {}

\* C22: the installments stage creates or changes an installment row only
\* for a sheet row whose hint resolves to a stored student with a persisted
\* fee summary, and the row carries that fee summary's fee_id; no other
\* table changes, and the stage itself never raises, so rows of students
\* without a fee summary are passed over.
C22_InstallmentNeedsFeeSummary ==
    [][pc = "installments" =>
          /\ \A t \in Touched(db, db', "ss_t_installments") :
                \E r \in Rows(wb.installments) :
                    /\ StudentCited(r) # NULL
                    /\ \E st \in db.ss_t_students :
                          st.student_id = StudentCited(r)
                    /\ \E f \in FeesOf(db, StudentCited(r)) :
                          f.fee_id = t.fee_id
                    /\ ~isna(r.installment_no)
                    /\ t.installment_no = r.installment_no
          /\ \A t \in Tables \ {"ss_t_installments"} : db'[t] = db[t]
          /\ RunStage("installments", db, wb, local).ok
          /\ failures' = failures => pc' = After("installments")
      ]_vars

\* The installments stage has just run on a sheet with a row of a student
\* without fee summary and a row of a student with one, in a second load;
\* the second row's installment is stored under its student's fee summary.
C22_Witness ==
    /\ pc = After("installments") /\ loads = 2
    /\ \E r \in Rows(wb.installments) : OwesNoSummary(r)
    /\ \E r \in Rows(wb.installments) :
          /\ StudentCited(r) # NULL
          /\ \E f \in FeesOf(db, StudentCited(r)) :
                \E t \in db.ss_t_installments :
                    t.fee_id = f.fee_id /\ t.installment_no = r.installment_no

\* The stages that write rows under main's school_id, with the read-back
\* mapping each of them publishes.
SchoolScoped ==
    [grades |-> "grade_map", subjects |-> "subject_map",
     teachers |-> "teacher_map"]

\* The values of a mapping.
Range(m) == {m[k] : k \in DOMAIN m}

\* C23: in every load the school_id statement yields the identifier of the
\* stored school named in the first row of the schools sheet, which is not
\* null when that name is present; the value stays the same to the end of
\* the load; every grade, subject and teacher row a stage creates or
\* changes carries it, and the mapping the stage publishes holds only
\* identifiers of rows of that school.
C23_SingleTargetSchool ==
    [][/\ Ran("school_id") =>
            LET first == wb.schools[1].school_name
            IN /\ ~isna(first) =>
                     /\ local'.school_id # NULL
                     /\ \E sch \in db.ss_t_schools :
                           /\ sch.school_id = local'.school_id
                           /\ sch.school_name = first
               /\ isna(first) => local'.school_id = NULL
       /\ Running /\ pc # "school_id" /\ pc' # "aborted" =>
            local'.school_id = local.school_id
       /\ pc \in DOMAIN SchoolScoped =>
            /\ \A t \in Touched(db, db', TableOf[pc]) :
                  t.school_id = local.school_id
            /\ Ran(pc) =>
                  Range(local'[SchoolScoped[pc]]) \subseteq
                      {t[Pk[TableOf[pc]]] :
                          t \in {x \in db'[TableOf[pc]] :
                                    x.school_id = local.school_id}}
      ]_vars

\* A second load whose schools sheet has several rows has run its grade,
\* subject and teacher stages under the school of the first row, while rows
\* of another school, written by the first load, are stored as well.
C23_Witness ==
    /\ pc = After("teachers") /\ loads = 2
    /\ Len(wb.schools) > 1
    /\ local.school_id # NULL
    /\ \E sch \in db.ss_t_schools :
          /\ sch.school_id = local.school_id
          /\ sch.school_name = wb.schools[1].school_name
    /\ \A t \in {"ss_t_grades", "ss_t_subjects", "ss_t_teachers"} :
          /\ \E x \in db[t] : x.school_id = local.school_id
          /\ \E x \in db[t] : x.school_id \notin {local.school_id, NULL}
    /\ local.grade_map # << >>
====
